---- MODULE Spec2Model ----
(***************************************************************************)
(* A model of RealtimeSTT/audio_recorder.py: the AudioToTextRecorder       *)
(* recording controller (_recording_worker), the facade calls (text,       *)
(* wait_audio, transcribe, start, stop, listen, abort, shutdown), the      *)
(* capture side of the frame channel and the TranscriptionWorker.          *)
(*                                                                         *)
(* Time is a discrete clock `now`; every configured duration is a number   *)
(* of ticks.  A captured sample is a natural number, numbered in capture   *)
(* order; a frame is a sequence of samples; frame n of the capture worker  *)
(* is the samples (n-1)*buffer_size+1 .. n*buffer_size.                    *)
(***************************************************************************)
EXTENDS Integers, Sequences, FiniteSets, TLC

VARIABLES
    rec,            \* the AudioToTextRecorder object's fields (a record)
    cfg,            \* the constructor arguments (fixed after Init)
    now,            \* time.time(), in ticks
    audio_queue,    \* self.audio_queue: frames put by capture, not yet read
    next_frame,     \* number of the next frame the capture worker produces
    cap,            \* the capture worker (_audio_data_worker): its locals
    wk,             \* the recording thread: its locals and position
    silero_threads, \* running threading.Thread(target=_is_silero_speech)
    caller,         \* the thread inside text()/wait_audio()/transcribe()
    ctl,            \* the thread issuing start/stop/listen/abort
    pipe_req,       \* parent_transcription_pipe: requests sent, not yet taken
    pipe_res,       \* parent_transcription_pipe: results sent, not yet received
    tw_queue,       \* TranscriptionWorker.queue
    sd,             \* the threads calling shutdown(): position of each
    hist            \* history (ghost) variables used to state the claims

vars == <<rec, cfg, now, audio_queue, next_frame, cap, wk, silero_threads, caller,
          ctl, pipe_req, pipe_res, tw_queue, sd, hist>>

----------------------------------------------------------------------------
(* Bounds of the model *)

\* the clock starts at T0 (time.time() is far from 0, the "unset" value)
T0 == 4
\* per specification: ticks of the clock (Horizon), frames captured (Frames),
\* calls of the control thread (Calls), calls of the caller thread (Texts)
CoreHorizon == 2
CoreFrames == 3
CoreCalls == 1
CoreTexts == 3
SilenceHorizon == 4
SilenceFrames == 3
SilenceCalls == 1
SilenceTexts == 1
WakeHorizon == 4
WakeFrames == 3
WakeCalls == 3
EarlyHorizon == 8
EarlyFrames == 8
EarlyCalls == 1
PreRollHorizon == 1
PreRollFrames == 4
PreRollCalls == 2
EarlyTexts == 1
GapHorizon == 1
GapFrames == 3
GapCalls == 3
GapTexts == 1
OverflowFrames == 5
OverflowQueue == 4
OverflowCalls == 2
ShutdownFrames == 2
ShutdownCalls == 1
BackdateHorizon == 2
BackdateFrames == 3
BackdateCalls == 3
BackdateTexts == 2
StaleHorizon == 4
StaleFrames == 3
StaleCalls == 2
StaleTexts == 1
RearmHorizon == 6
RearmFrames == 3
RearmCalls == 3
RearmTexts == 1
MatchHorizon == 1
MatchFrames == 1
MatchCalls == 3
MatchTexts == 3
InterruptHorizon == 1
InterruptFrames == 1
InterruptCalls == 2
InterruptTexts == 2
RaceHorizon == 4
RaceFrames == 2
RaceCalls == 2
RaceTexts == 1
MinLengthHorizon == 4
MinLengthFrames == 2
MinLengthCalls == 3
MinLengthTexts == 1
FailureHorizon == 6
FailureFrames == 5
FailureCalls == 2
FailureTexts == 1
CallbackHorizon == 2
CallbackFrames == 2
CallbackCalls == 2
CallbackTexts == 2
TeardownFrames == 3
TeardownQueue == 3
TeardownCalls == 1
MaxRate == 8
MaxSize == 8
MaxDuration == 12
VoiceFrames == 4
VoiceCalls == 2
WakeGateHorizon == 2
WakeGateFrames == 2
WakeGateCalls == 1
WakeGateTexts == 1
\* the capture worker: samples read from the stream, samples of a chunk after
\* preprocessing, calls of the control thread
SecondHorizon == 4
SecondFrames == 3
SecondCalls == 2
SecondTexts == 1
CaptureSamples == 6
MaxChunk == 3
CaptureCalls == 2
\* frames the model lets wait in audio_queue (the queue itself is unbounded)
MaxQueue == 1

(* Configuration values, scaled down to ticks and small sample counts *)

\* the defaults of sample_rate and buffer_size
SAMPLE_RATE == 16000
BUFFER_SIZE == 512

sample_rate == 3
buffer_size == 2
pre_recording_buffer_duration == 2
min_length_of_recording == 1
wake_word_activation_delay == 0
wake_word_timeout == 1
wake_word_buffer_duration == 1
PostSilenceShort == 2
PostSilenceLong == 3
EarlyThreshold == 1
MinGap == 1
allowed_latency_limit == 1

----------------------------------------------------------------------------
(* Sequences *)

Min(a, b) == IF a < b THEN a ELSE b
Max(a, b) == IF a > b THEN a ELSE b

RECURSIVE Flatten(_)
\* b''.join(frames)
Flatten(fs) == IF fs = <<>> THEN <<>> ELSE Head(fs) \o Flatten(Tail(fs))

\* the last n elements of q
LastN(q, n) == SubSeq(q, Len(q) - Min(n, Len(q)) + 1, Len(q))

\* frame number n as the capture worker enqueues it
Frame(n) == [k \in 1..buffer_size |-> (n - 1) * buffer_size + k]

\* durations given to the constructor are counted in tenths of the time unit
Tenths == 10

\* collections.deque(maxlen=int((sample_rate // buffer_size) * duration)),
\* the duration in tenths
Maxlen(rate, size, duration) == ((rate \div size) * duration) \div Tenths

\* the smallest integer that is not below n / d
Ceiling(n, d) == (n + d - 1) \div d

\* collections.deque(maxlen=...): the capacity of audio_buffer
AudioBufferMaxlen ==
    Maxlen(sample_rate, buffer_size, pre_recording_buffer_duration * Tenths)

\* an append that never evicts
DequeAppend_NoEvict(d, x, m) == Append(d, x)

\* an append that, on a full deque, drops the new element
DequeAppend_KeepOldest(d, x, m) ==
    IF Len(d) >= m THEN d ELSE Append(d, x)

\* deque.append on a deque with maxlen m
DequeAppend(d, x, m) ==
    IF m = 0 THEN <<>>
    ELSE IF Len(d) >= m THEN Tail(d) \o <<x>>
    ELSE Append(d, x)

----------------------------------------------------------------------------
(* The recorder object: AudioToTextRecorder.__init__ *)

\* self.audio = None
NoAudio == <<0>>
\* threading.Lock(): not held
Free == "free"

InitRecorder(use_microphone) ==
    [ state |-> "inactive",
      is_recording |-> FALSE,
      is_running |-> TRUE,
      is_shut_down |-> FALSE,
      frames |-> <<>>,
      last_frames |-> <<>>,
      audio_buffer |-> <<>>,
      audio_buffer_maxlen |-> AudioBufferMaxlen,
      audio |-> NoAudio,
      recording_start_time |-> 0,
      recording_stop_time |-> 0,
      speech_end_silence_start |-> 0,
      listen_start |-> 0,
      wake_word_detect_time |-> 0,
      wakeword_detected |-> FALSE,
      is_webrtc_speech_active |-> FALSE,
      is_silero_speech_active |-> FALSE,
      silero_working |-> FALSE,
      start_recording_on_voice_activity |-> FALSE,
      stop_recording_on_voice_deactivity |-> FALSE,
      start_recording_event |-> FALSE,
      stop_recording_event |-> FALSE,
      interrupt_stop_event |-> FALSE,
      was_interrupted |-> FALSE,
      shutdown_event |-> FALSE,
      backdate_stop_seconds |-> 0,
      backdate_resume_seconds |-> 0,
      transcribe_count |-> 0,
      allowed_to_early_transcribe |-> TRUE,
      transcription_lock |-> Free,
      shutdown_lock |-> Free,
      use_microphone |-> use_microphone,
      \* callbacks: the number of times each has been invoked
      on_recording_start |-> 0,
      on_recording_stop |-> 0,
      on_wakeword_detected |-> 0,
      on_wakeword_timeout |-> 0 ]

\* _set_state: the state-change callbacks only drive the spinner
_set_state(s, new_state) == [s EXCEPT !.state = new_state]

\* a start() without the test of the minimum gap
start_NoGap(s, t) ==
    [s EXCEPT !.state = "recording",
              !.wakeword_detected = FALSE,
              !.wake_word_detect_time = 0,
              !.frames = <<>>,
              !.is_recording = TRUE,
              !.recording_start_time = t,
              !.is_silero_speech_active = FALSE,
              !.is_webrtc_speech_active = FALSE,
              !.stop_recording_event = FALSE,
              !.start_recording_event = TRUE,
              !.on_recording_start = @ + 1]

\* start(frames=None) at time t
start(s, t) ==
    IF t - s.recording_stop_time < cfg.min_gap_between_recordings
    THEN s
    ELSE [s EXCEPT !.state = "recording",
                   !.wakeword_detected = FALSE,
                   !.wake_word_detect_time = 0,
                   !.frames = <<>>,
                   !.is_recording = TRUE,
                   !.recording_start_time = t,
                   !.is_silero_speech_active = FALSE,
                   !.is_webrtc_speech_active = FALSE,
                   !.stop_recording_event = FALSE,
                   !.start_recording_event = TRUE,
                   !.on_recording_start = @ + 1]

\* a stop() without the test of the minimum length
stop_NoMinLength(s, t, backdate_stop_seconds, backdate_resume_seconds) ==
    [s EXCEPT !.last_frames = s.frames,
              !.backdate_stop_seconds = backdate_stop_seconds,
              !.backdate_resume_seconds = backdate_resume_seconds,
              !.is_recording = FALSE,
              !.recording_stop_time = t,
              !.is_silero_speech_active = FALSE,
              !.is_webrtc_speech_active = FALSE,
              !.start_recording_event = FALSE,
              !.stop_recording_event = TRUE,
              !.on_recording_stop = @ + 1]

\* stop(backdate_stop_seconds, backdate_resume_seconds) at time t
stop(s, t, backdate_stop_seconds, backdate_resume_seconds) ==
    IF t - s.recording_start_time < min_length_of_recording
    THEN s
    ELSE [s EXCEPT !.last_frames = s.frames,
                   !.backdate_stop_seconds = backdate_stop_seconds,
                   !.backdate_resume_seconds = backdate_resume_seconds,
                   !.is_recording = FALSE,
                   !.recording_stop_time = t,
                   !.is_silero_speech_active = FALSE,
                   !.is_webrtc_speech_active = FALSE,
                   !.start_recording_event = FALSE,
                   !.stop_recording_event = TRUE,
                   !.on_recording_stop = @ + 1]

\* listen() at time t
listen(s, t) ==
    [_set_state(s, "listening") EXCEPT
        !.listen_start = t,
        !.start_recording_on_voice_activity = TRUE]

\* _is_voice_active
_is_voice_active(s) == s.is_webrtc_speech_active /\ s.is_silero_speech_active

\* clear_audio_queue: the part that acts on the recorder object
clear_audio_buffer(s) == [s EXCEPT !.audio_buffer = <<>>]

----------------------------------------------------------------------------
(* _recording_worker: one iteration of the loop, on the frame `data`       *)
(* at time t.  `inp` holds what the external classifiers answer for the    *)
(* frame: inp.ww (_process_wakeword: an index, -1, or WwError when it      *)
(* raises), inp.webrtc (_is_webrtc_speech, any 10 ms frame is speech),     *)
(* inp.speech (the deactivity classifier on the frame).                    *)
(* A context c is [s: the recorder, w: the loop's locals, spawn: whether   *)
(* the iteration started a Silero thread, skipped: whether it ended with   *)
(* `continue`, failed: failed_stop_attempt, checked: whether it called     *)
(* _check_voice_activity].                                                 *)

WwError == -2
WwNone == -1

InitWorker ==
    [ pc |-> "get", was_recording |-> FALSE, delay_was_passed |-> FALSE,
      wakeword_samples_to_remove |-> 0, data |-> <<>>, count |-> 0 ]

Ctx(s, w) ==
    [s |-> s, w |-> w, spawn |-> FALSE, skipped |-> FALSE, failed |-> FALSE,
     checked |-> FALSE]

\* an overflow handling that discards the newest frames
DiscardOld_Newest(data, q, dropped) ==
    IF Len(q) > allowed_latency_limit
    THEN [data |-> data, queue |-> SubSeq(q, 1, allowed_latency_limit),
          dropped |-> dropped \o SubSeq(q, allowed_latency_limit + 1, Len(q))]
    ELSE [data |-> data, queue |-> q, dropped |-> dropped]

\* audio_queue.get and the overflow handling that follows it
RECURSIVE DiscardOld(_, _, _)
DiscardOld(data, q, dropped) ==
    IF Len(q) > allowed_latency_limit
    THEN DiscardOld(Head(q), Tail(q), Append(dropped, data))
    ELSE [data |-> data, queue |-> q, dropped |-> dropped]

GetFrame(q) ==
    IF cfg.handle_buffer_overflow
    THEN DiscardOld(Head(q), Tail(q), <<>>)
    ELSE [data |-> Head(q), queue |-> Tail(q), dropped |-> <<>>]

\* _check_voice_activity: Stage 1 now, Stage 2 on a new thread
_check_voice_activity(c, webrtc) ==
    LET s1 == [c.s EXCEPT !.is_webrtc_speech_active = webrtc]
    IN  IF webrtc /\ ~s1.silero_working
        THEN [c EXCEPT !.s = [s1 EXCEPT !.silero_working = TRUE], !.spawn = TRUE,
                       !.checked = TRUE]
        ELSE [c EXCEPT !.s = s1, !.checked = TRUE]

\* the voice-activated start of a recording
VoiceStart(s, t) ==
    LET a == start(s, t)
    IN  [a EXCEPT !.start_recording_on_voice_activity = FALSE,
                  !.frames = a.frames \o a.audio_buffer,
                  !.audio_buffer = <<>>]

\* the branch `if not self.is_recording`
NotRecording(c, data, t, inp) ==
    LET s == c.s
        time_since_listen_start ==
            IF s.listen_start # 0 THEN t - s.listen_start ELSE 0
        passed == time_since_listen_start > wake_word_activation_delay
        s1 == IF passed /\ ~c.w.delay_was_passed
                  /\ cfg.use_wake_words /\ wake_word_activation_delay # 0
              THEN [s EXCEPT !.on_wakeword_timeout = @ + 1]
              ELSE s
        w1 == [c.w EXCEPT !.delay_was_passed = passed]
        s2 == IF s1.recording_stop_time = 0
              THEN IF cfg.use_wake_words /\ passed /\ ~s1.wakeword_detected
                   THEN _set_state(s1, "wakeword")
                   ELSE IF s1.listen_start # 0
                        THEN _set_state(s1, "listening")
                        ELSE _set_state(s1, "inactive")
              ELSE s1
        consult == cfg.use_wake_words /\ passed
        detected == consult /\ inp.ww >= 0
        s3 == IF detected
              THEN [s2 EXCEPT !.wake_word_detect_time = t,
                              !.wakeword_detected = TRUE,
                              !.on_wakeword_detected = @ + 1]
              ELSE s2
        w3 == IF detected
              THEN [w1 EXCEPT !.wakeword_samples_to_remove =
                                  sample_rate * wake_word_buffer_duration]
              ELSE w1
        c3 == [c EXCEPT !.s = s3, !.w = w3]
        c4 == IF ((~cfg.use_wake_words \/ ~passed)
                     /\ s3.start_recording_on_voice_activity)
                 \/ s3.wakeword_detected
              THEN IF _is_voice_active(s3)
                   THEN [c3 EXCEPT !.s = VoiceStart(s3, t)]
                   ELSE _check_voice_activity(c3, inp.webrtc)
              ELSE c3
    IN  IF consult /\ inp.ww = WwError
        THEN [c EXCEPT !.s = s2, !.w = w1, !.skipped = TRUE]
        ELSE [c4 EXCEPT !.s.speech_end_silence_start = 0]

\* the loop that removes the wake word's samples from self.frames
RECURSIVE TrimWakeword(_, _)
TrimWakeword(frames, n) ==
    IF n > 0 /\ frames # <<>>
    THEN LET frame == Head(frames)
             frame_samples == Len(frame)
         IN  IF n >= frame_samples
             THEN TrimWakeword(Tail(frames), n - frame_samples)
             ELSE TrimWakeword(<<SubSeq(frame, n + 1, Len(frame))>> \o Tail(frames), n)
    ELSE frames

\* the deactivity classifier call: it writes the classifier's flag
Classify(s, is_speech) ==
    IF cfg.silero_deactivity_detection
    THEN [s EXCEPT !.is_silero_speech_active = is_speech, !.silero_working = FALSE]
    ELSE [s EXCEPT !.is_webrtc_speech_active = is_speech]

\* whether the iteration dispatches an early transcription request
EarlyDue(s, t) ==
    /\ s.speech_end_silence_start # 0
    /\ cfg.early_transcription_on_silence # 0
    /\ Len(s.frames) > 0
    /\ t - s.speech_end_silence_start > cfg.early_transcription_on_silence
    /\ s.allowed_to_early_transcribe

\* RecordingHead without the reset of the silence timer on a speech frame
RecordingHead_KeepTimer(c, t, inp) ==
    LET s0 == IF c.w.wakeword_samples_to_remove > 0
              THEN [c.s EXCEPT !.frames =
                        TrimWakeword(@, c.w.wakeword_samples_to_remove)]
              ELSE c.s
        w0 == [c.w EXCEPT !.wakeword_samples_to_remove = 0]
        s1 == IF s0.stop_recording_on_voice_deactivity
              THEN LET k == Classify(s0, inp.speech)
                   IN  IF ~inp.speech
                          /\ k.speech_end_silence_start = 0
                          /\ t - k.recording_start_time > min_length_of_recording
                       THEN [k EXCEPT !.speech_end_silence_start = t]
                       ELSE k
              ELSE s0
    IN  [c EXCEPT !.s = s1, !.w = w0]

\* the branch `else` (recording), up to the early-transcription test
RecordingHead(c, t, inp) ==
    LET s0 == IF c.w.wakeword_samples_to_remove > 0
              THEN [c.s EXCEPT !.frames =
                        TrimWakeword(@, c.w.wakeword_samples_to_remove)]
              ELSE c.s
        w0 == [c.w EXCEPT !.wakeword_samples_to_remove = 0]
        s1 == IF s0.stop_recording_on_voice_deactivity
              THEN LET k == Classify(s0, inp.speech)
                   IN  IF ~inp.speech
                       THEN IF k.speech_end_silence_start = 0
                               /\ t - k.recording_start_time > min_length_of_recording
                            THEN [k EXCEPT !.speech_end_silence_start = t]
                            ELSE k
                       ELSE IF k.speech_end_silence_start # 0
                            THEN [k EXCEPT !.speech_end_silence_start = 0,
                                           !.allowed_to_early_transcribe = TRUE]
                            ELSE k
              ELSE s0
    IN  [c EXCEPT !.s = s1, !.w = w0]

\* SilenceStop with `>` in the place of `>=`
SilenceStop_Strict(c, data, t) ==
    LET s == c.s
    IN  IF s.speech_end_silence_start # 0
           /\ t - s.speech_end_silence_start > cfg.post_speech_silence_duration
        THEN LET a == stop([s EXCEPT !.frames = Append(@, data)], t, 0, 0)
             IN  IF ~a.is_recording
                 THEN [c EXCEPT !.s = [a EXCEPT !.speech_end_silence_start = 0]]
                 ELSE [c EXCEPT !.s = a, !.failed = TRUE]
        ELSE c

\* the silence-based stop that ends the block
\* `if self.stop_recording_on_voice_deactivity`
SilenceStop(c, data, t) ==
    LET s == c.s
    IN  IF s.speech_end_silence_start # 0
           /\ t - s.speech_end_silence_start >= cfg.post_speech_silence_duration
        THEN LET a == stop([s EXCEPT !.frames = Append(@, data)], t, 0, 0)
             IN  IF ~a.is_recording
                 THEN [c EXCEPT !.s = [a EXCEPT !.speech_end_silence_start = 0]]
                 ELSE [c EXCEPT !.s = a, !.failed = TRUE]
        ELSE c

\* the end of the iteration, common to both branches
IterationTail(c, data, t) ==
    LET s == c.s
        s1 == IF ~s.is_recording /\ c.w.was_recording
              THEN [s EXCEPT !.stop_recording_on_voice_deactivity = FALSE]
              ELSE s
        s2 == IF s1.wake_word_detect_time # 0
                 /\ t - s1.wake_word_detect_time > wake_word_timeout
              THEN [s1 EXCEPT !.wake_word_detect_time = 0,
                              !.on_wakeword_timeout =
                                  IF s1.wakeword_detected THEN @ + 1 ELSE @,
                              !.wakeword_detected = FALSE]
              ELSE s1
        s3 == IF s2.is_recording /\ ~c.failed
              THEN [s2 EXCEPT !.frames = Append(@, data)]
              ELSE s2
        s4 == IF ~s3.is_recording \/ s3.speech_end_silence_start # 0
              THEN [s3 EXCEPT !.audio_buffer =
                        DequeAppend(@, data, AudioBufferMaxlen)]
              ELSE s3
    IN  [c EXCEPT !.s = s4, !.w.was_recording = s2.is_recording]

----------------------------------------------------------------------------
(* History variables.  They record what happened and are never read by     *)
(* the operations.                                                         *)

InitHist ==
    [ dropped |-> <<>>,        \* frames discarded by the overflow handling
      last_put |-> <<>>,       \* the frame enqueued last
      delivered |-> <<>>,      \* frames handed to an iteration while no
                               \* recording had been started yet
      processed |-> <<>>,      \* those of them whose iteration ran to its end
      pristine |-> TRUE,       \* no start was attempted, buffer never cleared
      last_time |-> 0,         \* time of the last completed iteration
      last_class |-> "none",   \* its deactivity classification, if any
      silence_since |-> 0,     \* time of the first frame of the current run of
                               \* frames classified non-speech while recording
      timed_since |-> 0,       \* time of the first frame of that run processed
                               \* after the recording outgrew the minimum length
      gated |-> FALSE,         \* since listen() was called in state inactive, an
                               \* iteration found the voice-activity gate true
      listened |-> FALSE,      \* listen() was called in state inactive
      reset |-> FALSE,         \* the last iteration's speech frame found the
                               \* silence timer running
      voice_starts |-> 0,      \* voice-activated starts since the last stop
      early_sent |-> 0,        \* early transcription requests sent
      waits_for_earlier |-> FALSE, \* the transcribe() in progress sent no
                               \* request: it found transcribe_count above 0
      ww_episode |-> "none",   \* none / pending (detected) / timeout (fired) /
                               \* after (a frame was processed since, with the
                               \* activation delay passed)
      ww_recorded |-> FALSE,   \* a recording started since the detection
      stop_pending |-> FALSE,  \* stop() was called with offsets and neither a
                               \* start nor a finalization came since
      utterance |-> <<>>,      \* the samples of self.frames at that stop()
      stop_b |-> 0,            \* its backdate_stop_seconds
      stop_r |-> 0,            \* its backdate_resume_seconds
      carried |-> <<>>,        \* the samples the last finalization left in
                               \* self.frames for the next utterance
      early_req |-> <<>>,      \* the early request sent in the silence episode
                               \* that is running, if any
      episode_sent |-> 0,      \* early requests sent in that episode
      stale |-> {},            \* the early requests of the episodes that
                               \* ended with speech resuming
      refused |-> FALSE,       \* the last call of start() returned without
                               \* starting a recording
      finished |-> <<>>,       \* the arguments on_transcription_finished was
                               \* called with
      fresh_webrtc |-> FALSE,  \* since the last report of non-speech by either
                               \* classifier while not recording, Stage 1
                               \* reported speech
      fresh_silero |-> FALSE,  \* and so did Stage 2, for a frame processed since
      stale_threads |-> 0,     \* the running Stage 2 threads that were started
                               \* before that report
      constructed |-> FALSE,   \* the capacity of audio_buffer was computed from
                               \* the configuration drawn
      got_error |-> FALSE,     \* the transcribe() in progress, or the last one,
                               \* received a result with the error status
      accepted |-> <<>>,       \* the samples the capture worker read and
                               \* preprocessed with the microphone on
      unused |-> <<>>,         \* those it read with the microphone off
      enqueued |-> <<>>,       \* the frames it put into audio_queue
      tw_received |-> <<>>,    \* the requests the TranscriptionWorker received,
                               \* in the order in which it received them
      tw_answered |-> <<>>,    \* for every result it sent, in the order of the
                               \* sends, the request it answers and the status
      reader_joins |-> 0,      \* times shutdown() joined the reader process
      recorded |-> <<>>,       \* the frames of the recording started last: the
                               \* pre-roll frames it started with, then every
                               \* frame processed while it was in progress
      last_recorded |-> <<>>,  \* those of the recording that stop() stopped last
      kept |-> "none",         \* who called the stop() that returned without
                               \* stopping the recording in progress, if no
                               \* iteration, start or stop came since:
                               \* stop / silence / abort
      teardowns |-> 0,         \* times shutdown() ran its teardown
      pipe_closed |-> 0,       \* times parent_transcription_pipe was closed
      joins |-> 0,             \* times the recording thread was joined
      returned |-> 0 ]         \* shutdown() calls that have returned

----------------------------------------------------------------------------
(* The transcription requests and results *)

\* _add_padding_to_audio: padding_duration = 1.0 of zeros on both sides
_add_padding_to_audio(audio) ==
    LET padding == [i \in 1..sample_rate |-> 0]
    IN  padding \o audio \o padding

\* what the engine returns for a request: the model names the text by the
\* request it transcribes
Transcript(request) == request

----------------------------------------------------------------------------
(* The capture worker and the clock *)

\* _audio_data_worker: a chunk of one frame is read with the microphone on
\* and the worker's buffer empty, and the frame is put into audio_queue
CaptureFrame ==
    /\ next_frame <= cfg.max_frames
    /\ Len(audio_queue) < cfg.max_queue
    /\ rec.use_microphone
    /\ cap.pc = "run"
    /\ ~rec.shutdown_event
    /\ audio_queue' = Append(audio_queue, Frame(next_frame))
    /\ next_frame' = next_frame + 1
    /\ hist' = [hist EXCEPT !.last_put = Frame(next_frame)]
    /\ UNCHANGED <<rec, cfg, now, cap, wk, silero_threads, caller, ctl, pipe_req,
                   pipe_res, tw_queue, sd>>

\* time passes; the recorder reads the clock only inside its operations, so
\* the clock moves while no frame waits, cfg.tick units at a time
Tick ==
    /\ now + cfg.tick <= T0 + cfg.horizon
    /\ audio_queue = <<>>
    /\ now' = now + cfg.tick
    /\ UNCHANGED <<rec, cfg, audio_queue, next_frame, cap, wk, silero_threads, caller,
                   ctl, pipe_req, pipe_res, tw_queue, sd, hist>>

\* the worker's locals when __init__ has started it (use_microphone) or
\* not: pc is none (no reader process), run (in the loop), flushed (the
\* remaining buffer was put) or ended (the device is released); read counts
\* the samples read from the stream
InitCapture(use_microphone) ==
    [ pc |-> IF use_microphone THEN "run" ELSE "none", buffer |-> <<>>,
      read |-> 0 ]

\* the full frames at the head of the buffer b
RECURSIVE FullFrames(_)
FullFrames(b) ==
    IF Len(b) >= buffer_size
    THEN <<SubSeq(b, 1, buffer_size)>> \o FullFrames(SubSeq(b, buffer_size + 1, Len(b)))
    ELSE <<>>

\* one turn of the loop: a chunk is read; with the microphone on it is
\* preprocessed (n samples come out) and added to the buffer, and the full
\* frames of the buffer are put into audio_queue
CaptureChunk ==
    /\ cap.pc = "run"
    /\ ~rec.shutdown_event
    /\ \E n \in 1..MaxChunk :
          /\ cap.read + n <= CaptureSamples
          /\ LET processed_data == [k \in 1..n |-> cap.read + k]
                 buffer == cap.buffer \o processed_data
                 put == FullFrames(buffer)
             IN  IF rec.use_microphone
                 THEN /\ audio_queue' = audio_queue \o put
                      /\ cap' = [cap EXCEPT
                                   !.buffer = SubSeq(buffer, Len(put) * buffer_size + 1,
                                                     Len(buffer)),
                                   !.read = @ + n]
                      /\ hist' = [hist EXCEPT !.accepted = @ \o processed_data,
                                              !.enqueued = @ \o put]
                 ELSE /\ audio_queue' = audio_queue
                      /\ cap' = [cap EXCEPT !.read = @ + n]
                      /\ hist' = [hist EXCEPT !.unused = @ \o processed_data]
    /\ UNCHANGED <<rec, cfg, now, next_frame, wk, silero_threads, caller, ctl,
                   pipe_req, pipe_res, tw_queue, sd>>

\* a flush that puts nothing
CaptureFlush_Nothing ==
    /\ cap.pc = "run"
    /\ rec.shutdown_event
    /\ cap' = [cap EXCEPT !.pc = "flushed"]
    /\ UNCHANGED <<rec, cfg, now, audio_queue, next_frame, wk, silero_threads,
                   caller, ctl, pipe_req, pipe_res, tw_queue, sd, hist>>

\* the loop ends on shutdown_event; `finally`: the remaining buffer is put
CaptureFlush ==
    /\ cap.pc = "run"
    /\ rec.shutdown_event
    /\ cap' = [cap EXCEPT !.pc = "flushed"]
    /\ IF cap.buffer # <<>>
       THEN /\ audio_queue' = Append(audio_queue, cap.buffer)
            /\ hist' = [hist EXCEPT !.enqueued = Append(@, cap.buffer)]
       ELSE UNCHANGED <<audio_queue, hist>>
    /\ UNCHANGED <<rec, cfg, now, next_frame, wk, silero_threads, caller, ctl,
                   pipe_req, pipe_res, tw_queue, sd>>

\* `finally`, continued: the stream is closed and the interface terminated
CaptureRelease ==
    /\ cap.pc = "flushed"
    /\ cap' = [cap EXCEPT !.pc = "ended"]
    /\ UNCHANGED <<rec, cfg, now, audio_queue, next_frame, wk, silero_threads,
                   caller, ctl, pipe_req, pipe_res, tw_queue, sd, hist>>

----------------------------------------------------------------------------
(* The recording thread *)

\* the answers of the classifiers the iteration consults; an answer that
\* the iteration does not read is fixed
Inputs ==
    [ ww : IF cfg.use_wake_words /\ ~rec.is_recording
           THEN {WwError, WwNone, 0} ELSE {WwNone},
      webrtc : IF ~rec.is_recording THEN BOOLEAN ELSE {FALSE},
      speech : IF rec.is_recording /\ rec.stop_recording_on_voice_deactivity
               THEN BOOLEAN ELSE {FALSE} ]

\* the history after an iteration that took `c0` to `c` on frame `data`
IterationHist(h, c0, c, g, armed, inp) ==
    LET s0 == c0.s
        s == c.s
        classified == s0.is_recording /\ armed
        started == ~s0.is_recording /\ s.on_recording_start > s0.on_recording_start
        stopped == s.on_recording_stop > s0.on_recording_stop
        attempted == ~s0.is_recording /\ s0.start_recording_on_voice_activity
                        /\ ~s.start_recording_on_voice_activity
        fired == s.on_wakeword_timeout > s0.on_wakeword_timeout
                    /\ s0.wake_word_detect_time # 0
        detected == s.on_wakeword_detected > s0.on_wakeword_detected
    IN  [h EXCEPT
          !.dropped = @ \o g.dropped,
          !.delivered = IF h.pristine /\ ~s0.is_recording
                        THEN Append(@, g.data) ELSE @,
          !.processed = IF h.pristine /\ ~s0.is_recording /\ ~c.skipped
                        THEN Append(@, g.data) ELSE @,
          !.pristine = @ /\ ~started /\ ~attempted /\ ~s0.is_recording,
          !.last_time = IF c.skipped THEN @ ELSE now,
          !.last_class = IF classified
                         THEN (IF inp.speech THEN "speech" ELSE "silence")
                         ELSE "none",
          !.silence_since = IF classified /\ ~inp.speech /\ s.is_recording
                            THEN (IF @ = 0 THEN now ELSE @)
                            ELSE 0,
          !.timed_since = IF classified /\ ~inp.speech /\ s.is_recording
                          THEN (IF @ # 0 THEN @
                                ELSE IF now - s0.recording_start_time
                                            > min_length_of_recording
                                     THEN now ELSE 0)
                          ELSE 0,
          !.gated = IF stopped THEN FALSE
                    ELSE @ \/ (h.listened /\ ~s0.is_recording
                                 /\ s0.start_recording_on_voice_activity
                                 /\ _is_voice_active(s0) /\ ~c.skipped),
          !.listened = @ /\ ~stopped,
          !.reset = classified /\ inp.speech /\ s0.speech_end_silence_start # 0,
          !.voice_starts = IF stopped THEN 0
                           ELSE IF started THEN @ + 1 ELSE @,
          !.ww_episode = IF started THEN "none"
                         ELSE IF detected THEN "pending"
                         ELSE IF fired THEN "timeout"
                         ELSE IF @ = "timeout" /\ ~s0.is_recording
                                 /\ s0.listen_start # 0
                                 /\ now - s0.listen_start > wake_word_activation_delay
                              THEN "after"
                         ELSE IF @ \in {"timeout", "after"} THEN "none"
                         ELSE @,
          !.ww_recorded = IF detected THEN started ELSE (@ \/ started),
          !.early_req = IF s.is_recording /\ s.speech_end_silence_start # 0
                        THEN @ ELSE <<>>,
          !.episode_sent = IF s.is_recording /\ s.speech_end_silence_start # 0
                           THEN @ ELSE 0,
          !.stale = IF classified /\ inp.speech /\ h.early_req # <<>>
                    THEN @ \cup {h.early_req} ELSE @,
          !.refused = IF started THEN FALSE
                      ELSE IF attempted THEN TRUE ELSE @,
          !.kept = IF c.failed THEN "silence" ELSE "none",
          !.recorded = IF started THEN Append(s0.audio_buffer, g.data)
                       ELSE IF s0.is_recording THEN Append(@, g.data)
                       ELSE @,
          !.last_recorded = IF stopped THEN Append(h.recorded, g.data) ELSE @,
          !.fresh_webrtc = IF c.checked THEN inp.webrtc ELSE @,
          !.fresh_silero = IF c.checked /\ ~inp.webrtc THEN FALSE ELSE @,
          !.stale_threads = IF c.checked /\ ~inp.webrtc THEN silero_threads ELSE @,
          !.stop_pending = @ /\ ~started /\ ~stopped,
          !.utterance = IF started \/ stopped THEN <<>> ELSE @,
          !.stop_b = IF started \/ stopped THEN 0 ELSE @,
          !.stop_r = IF started \/ stopped THEN 0 ELSE @ ]

\* the iteration on the frame g.data, read by the thread with the locals w,
\* g.queue being what it left in audio_queue; an iteration that dispatches
\* an early transcription goes on in WorkerEarly
Iteration(g, w) ==
    \E inp \in Inputs :
        LET c0 == Ctx(rec, w)
            armed == rec.stop_recording_on_voice_deactivity
            h == RecordingHead(c0, now, inp)
            early == rec.is_recording /\ armed /\ ~inp.speech /\ EarlyDue(h.s, now)
            c == IF ~rec.is_recording
                 THEN LET n == NotRecording(c0, g.data, now, inp)
                      IN  IF n.skipped THEN n ELSE IterationTail(n, g.data, now)
                 ELSE IF armed
                      THEN IterationTail(SilenceStop(h, g.data, now), g.data, now)
                      ELSE IterationTail(h, g.data, now)
        IN  /\ audio_queue' = g.queue
            /\ IF early
               THEN /\ rec' = h.s
                    /\ wk' = [h.w EXCEPT !.pc = "early", !.data = g.data,
                                         !.count = h.s.transcribe_count]
                    /\ silero_threads' = silero_threads
                    /\ hist' = [IterationHist(hist, c0, h, g, armed, inp)
                                  EXCEPT !.last_time = hist.last_time]
               ELSE /\ rec' = c.s
                    /\ wk' = c.w
                    /\ silero_threads' = IF c.spawn THEN silero_threads + 1
                                         ELSE silero_threads
                    /\ hist' = IterationHist(hist, c0, c, g, armed, inp)

\* one iteration of the loop, from audio_queue.get
WorkerIterate ==
    /\ wk.pc = "get"
    /\ rec.is_running
    /\ audio_queue # <<>>
    /\ Iteration(GetFrame(audio_queue), wk)
    /\ UNCHANGED <<cfg, now, next_frame, cap, caller, ctl, pipe_req, pipe_res,
                   tw_queue, sd>>

\* audio_queue.get(timeout=0.01) returns a frame, with the overflow
\* handling on: other threads run before the thread goes on
WorkerPoll ==
    /\ wk.pc = "get"
    /\ rec.is_running
    /\ cfg.handle_buffer_overflow
    /\ audio_queue # <<>>
    /\ wk' = [wk EXCEPT !.pc = "qsize", !.data = Head(audio_queue)]
    /\ audio_queue' = Tail(audio_queue)
    /\ UNCHANGED <<rec, cfg, now, next_frame, cap, silero_threads, caller, ctl,
                   pipe_req, pipe_res, tw_queue, sd, hist>>

\* `while self.audio_queue.qsize() > self.allowed_latency_limit`
WorkerQsize ==
    /\ wk.pc = "qsize"
    /\ wk' = [wk EXCEPT !.pc = IF Len(audio_queue) > allowed_latency_limit
                                THEN "discard" ELSE "process"]
    /\ UNCHANGED <<rec, cfg, now, audio_queue, next_frame, cap, silero_threads, caller,
                   ctl, pipe_req, pipe_res, tw_queue, sd, hist>>

\* `data = self.audio_queue.get()`: it returns when the queue holds a frame
WorkerDiscard ==
    /\ wk.pc = "discard"
    /\ audio_queue # <<>>
    /\ wk' = [wk EXCEPT !.pc = "qsize", !.data = Head(audio_queue)]
    /\ audio_queue' = Tail(audio_queue)
    /\ hist' = [hist EXCEPT !.dropped = Append(@, wk.data)]
    /\ UNCHANGED <<rec, cfg, now, next_frame, cap, silero_threads, caller, ctl,
                   pipe_req, pipe_res, tw_queue, sd>>

\* the iteration on the frame that the overflow handling has left in data
WorkerProcess ==
    /\ wk.pc = "process"
    /\ Iteration([data |-> wk.data, queue |-> audio_queue, dropped |-> <<>>],
                 [wk EXCEPT !.pc = "get", !.data = <<>>])
    /\ UNCHANGED <<cfg, now, next_frame, cap, caller, ctl, pipe_req, pipe_res,
                   tw_queue, sd>>

\* the rest of an iteration that dispatches an early transcription:
\* the store of transcribe_count, the request, and the end of the iteration
WorkerEarly ==
    /\ wk.pc = "early"
    /\ LET s1 == [rec EXCEPT !.transcribe_count = wk.count + 1,
                             !.allowed_to_early_transcribe = FALSE]
           w1 == [wk EXCEPT !.pc = "get", !.data = <<>>, !.count = 0]
           c0 == Ctx(s1, w1)
           c == IterationTail(SilenceStop(c0, wk.data, now), wk.data, now)
           stopped == c.s.on_recording_stop > rec.on_recording_stop
       IN  /\ pipe_req' = Append(pipe_req, _add_padding_to_audio(Flatten(rec.frames)))
           /\ rec' = c.s
           /\ wk' = c.w
           /\ hist' = [hist EXCEPT !.early_sent = @ + 1,
                                   !.last_time = now,
                                   !.silence_since = IF c.s.is_recording THEN @ ELSE 0,
                                   !.timed_since = IF c.s.is_recording THEN @ ELSE 0,
                                   !.gated = @ /\ ~stopped,
                                   !.listened = @ /\ ~stopped,
                                   !.voice_starts = IF stopped THEN 0 ELSE @,
                                   !.early_req =
                                       IF c.s.is_recording
                                       THEN _add_padding_to_audio(Flatten(rec.frames))
                                       ELSE <<>>,
                                   !.episode_sent =
                                       IF c.s.is_recording THEN @ + 1 ELSE 0,
                                   !.kept = IF c.failed THEN "silence" ELSE "none",
                                   !.last_recorded =
                                       IF stopped THEN hist.recorded ELSE @,
                                   !.stop_pending = @ /\ ~stopped,
                                   !.utterance = IF stopped THEN <<>> ELSE @,
                                   !.stop_b = IF stopped THEN 0 ELSE @,
                                   !.stop_r = IF stopped THEN 0 ELSE @]
    /\ UNCHANGED <<cfg, now, audio_queue, next_frame, cap, silero_threads, caller, ctl,
                   pipe_res, tw_queue, sd>>

\* an iteration of the branch `else` (recording) with the stop on voice
\* deactivity armed, up to the classification of its frame: the thread has
\* read self.is_recording and has called the classifier, and other threads
\* run before it goes on
WorkerHead ==
    /\ wk.pc = "get"
    /\ rec.is_running
    /\ audio_queue # <<>>
    /\ rec.is_recording
    /\ rec.stop_recording_on_voice_deactivity
    /\ \E inp \in Inputs :
        LET g == GetFrame(audio_queue)
            c0 == Ctx(rec, wk)
            h == RecordingHead(c0, now, inp)
        IN  /\ ~EarlyDue(h.s, now)
            /\ audio_queue' = g.queue
            /\ rec' = h.s
            /\ wk' = [h.w EXCEPT !.pc = "stop_check", !.data = g.data]
            /\ hist' = [IterationHist(hist, c0, h, g, TRUE, inp)
                          EXCEPT !.last_time = hist.last_time]
    /\ UNCHANGED <<cfg, now, next_frame, cap, silero_threads, caller, ctl, pipe_req,
                   pipe_res, tw_queue, sd>>

\* the rest of that iteration: the silence-based stop and the end of the
\* iteration
WorkerStopCheck ==
    /\ wk.pc = "stop_check"
    /\ LET w1 == [wk EXCEPT !.pc = "get", !.data = <<>>]
           c == IterationTail(SilenceStop(Ctx(rec, w1), wk.data, now), wk.data, now)
           stopped == c.s.on_recording_stop > rec.on_recording_stop
       IN  /\ rec' = c.s
           /\ wk' = c.w
           /\ hist' = [hist EXCEPT !.last_time = now,
                                   !.silence_since = IF c.s.is_recording THEN @ ELSE 0,
                                   !.timed_since = IF c.s.is_recording THEN @ ELSE 0,
                                   !.gated = @ /\ ~stopped,
                                   !.listened = @ /\ ~stopped,
                                   !.voice_starts = IF stopped THEN 0 ELSE @,
                                   !.early_req = IF c.s.is_recording THEN @ ELSE <<>>,
                                   !.episode_sent = IF c.s.is_recording THEN @ ELSE 0,
                                   !.kept = IF c.failed THEN "silence" ELSE "none",
                                   !.last_recorded =
                                       IF stopped THEN hist.recorded ELSE @]
    /\ UNCHANGED <<cfg, now, audio_queue, next_frame, cap, silero_threads, caller, ctl,
                   pipe_req, pipe_res, tw_queue, sd>>

\* `while self.is_running` ends the loop
WorkerExit ==
    /\ wk.pc = "get"
    /\ ~rec.is_running
    /\ wk' = [wk EXCEPT !.pc = "exited"]
    /\ UNCHANGED <<rec, cfg, now, audio_queue, next_frame, cap, silero_threads, caller,
                   ctl, pipe_req, pipe_res, tw_queue, sd, hist>>

\* a thread started by _check_voice_activity ends _is_silero_speech
SileroFinish ==
    /\ silero_threads > 0
    /\ \E is_silero_speech_active \in BOOLEAN,
          stale \in {b \in BOOLEAN : IF b THEN hist.stale_threads > 0
                                    ELSE hist.stale_threads < silero_threads} :
          /\ rec' = [rec EXCEPT !.is_silero_speech_active = is_silero_speech_active,
                                !.silero_working = FALSE]
          /\ hist' = IF ~is_silero_speech_active
                     THEN [hist EXCEPT !.fresh_webrtc = FALSE,
                                       !.fresh_silero = FALSE,
                                       !.stale_threads = silero_threads - 1]
                     ELSE IF stale
                          THEN [hist EXCEPT !.stale_threads = @ - 1]
                          ELSE [hist EXCEPT !.fresh_silero = TRUE]
    /\ silero_threads' = silero_threads - 1
    /\ UNCHANGED <<cfg, now, audio_queue, next_frame, cap, wk, caller, ctl, pipe_req,
                   pipe_res, tw_queue, sd>>

----------------------------------------------------------------------------
(* The caller thread: text(), wait_audio(), transcribe() *)

\* callback: text() was called with on_transcription_finished; threads: the
\* arguments of the threads that text() started and that did not run yet
InitCaller ==
    [ pc |-> "idle", in_text |-> FALSE, calls |-> 0, count |-> 0,
      status |-> "unset", result |-> <<>>, returned |-> "none",
      callback |-> FALSE, threads |-> <<>> ]

\* the end of the call in progress when transcribe() has returned `value`
\* ("text" with the text `result`, or "empty"): transcribe() or text()
\* returns it, or text() starts the thread of the callback with it and
\* returns None
TextReturn(c, value, result) ==
    IF c.in_text /\ c.callback
    THEN [c EXCEPT !.pc = "idle", !.returned = "callback",
                   !.threads = Append(@, IF value = "text" THEN result ELSE <<>>)]
    ELSE [c EXCEPT !.pc = "idle", !.returned = value]

\* frame_bytes cut into frames of FRAME_SIZE bytes
FRAME_SIZE == 4
RECURSIVE Chunks(_, _)
Chunks(q, n) ==
    IF q = <<>> THEN <<>>
    ELSE <<SubSeq(q, 1, Min(n, Len(q)))>> \o Chunks(SubSeq(q, Min(n, Len(q)) + 1, Len(q)), n)

\* wait_audio, from `frames = self.frames` to its end
FinalizeUtterance(s) ==
    LET frames == IF Len(s.frames) = 0 THEN s.last_frames ELSE s.frames
        full_audio == Flatten(frames)
        samples_to_keep == sample_rate * s.backdate_resume_seconds
        frames_to_read ==
            IF samples_to_keep > 0
            THEN Chunks(LastN(full_audio, Min(samples_to_keep, Len(full_audio))),
                        FRAME_SIZE \div 2)
            ELSE <<>>
        samples_to_remove == sample_rate * s.backdate_stop_seconds
        audio == IF samples_to_remove > 0
                 THEN IF samples_to_remove < Len(full_audio)
                      THEN SubSeq(full_audio, 1, Len(full_audio) - samples_to_remove)
                      ELSE <<>>
                 ELSE full_audio
    IN  [_set_state(s, "inactive") EXCEPT
            !.audio = audio,
            !.frames = frames_to_read,
            !.last_frames = <<>>,
            !.backdate_stop_seconds = 0,
            !.backdate_resume_seconds = 0,
            !.listen_start = 0]

CallerUnchanged ==
    UNCHANGED <<cfg, now, audio_queue, next_frame, cap, wk, silero_threads, ctl,
                pipe_res, tw_queue, sd, hist>>

\* text(): the two events are cleared
CallText ==
    /\ caller.pc = "idle"
    /\ caller.calls < cfg.max_texts
    /\ rec' = [rec EXCEPT !.interrupt_stop_event = FALSE, !.was_interrupted = FALSE]
    /\ \E on_transcription_finished \in cfg.callbacks :
          caller' = [caller EXCEPT !.pc = "wa_begin", !.in_text = TRUE,
                                   !.calls = @ + 1, !.returned = "none",
                                   !.callback = on_transcription_finished]
    /\ UNCHANGED pipe_req
    /\ CallerUnchanged

\* wait_audio() called on its own
CallWaitAudio ==
    /\ caller.pc = "idle"
    /\ caller.calls < cfg.max_texts
    /\ caller' = [caller EXCEPT !.pc = "wa_begin", !.in_text = FALSE,
                                !.calls = @ + 1, !.returned = "none",
                                !.callback = FALSE]
    /\ UNCHANGED <<rec, pipe_req>>
    /\ CallerUnchanged

\* transcribe() called on its own, on the audio of an earlier wait_audio()
CallTranscribe ==
    /\ caller.pc = "idle"
    /\ caller.calls < cfg.max_texts
    /\ rec.audio # NoAudio
    /\ caller' = [caller EXCEPT !.pc = "tr_begin", !.in_text = FALSE,
                                !.calls = @ + 1, !.returned = "none",
                                !.callback = FALSE]
    /\ UNCHANGED <<rec, pipe_req>>
    /\ CallerUnchanged

\* wait_audio: listen_start, and the request for a voice-activated start
WaBegin ==
    /\ caller.pc = "wa_begin"
    /\ LET s1 == IF rec.listen_start = 0 THEN [rec EXCEPT !.listen_start = now]
                 ELSE rec
       IN  IF ~s1.is_recording /\ s1.frames = <<>>
           THEN /\ rec' = [_set_state(s1, "listening") EXCEPT
                              !.start_recording_on_voice_activity = TRUE]
                /\ caller' = [caller EXCEPT !.pc = "wa_wait_start"]
           ELSE /\ rec' = s1
                /\ caller' = [caller EXCEPT !.pc = "wa_check"]
    /\ UNCHANGED pipe_req
    /\ CallerUnchanged

\* a wait for start_recording_event that does not look at the interrupt flag
WaWaitStart_EventOnly ==
    /\ caller.pc = "wa_wait_start"
    /\ rec.start_recording_event
    /\ caller' = [caller EXCEPT !.pc = "wa_check"]
    /\ UNCHANGED <<rec, pipe_req>>
    /\ CallerUnchanged

\* wait_audio: the loop that waits for start_recording_event ends
WaWaitStart ==
    /\ caller.pc = "wa_wait_start"
    /\ rec.interrupt_stop_event \/ rec.start_recording_event
    /\ caller' = [caller EXCEPT !.pc = "wa_check"]
    /\ UNCHANGED <<rec, pipe_req>>
    /\ CallerUnchanged

\* wait_audio: `if self.is_recording` arms the stop on voice deactivity
WaCheck ==
    /\ caller.pc = "wa_check"
    /\ IF rec.is_recording
       THEN /\ rec' = [rec EXCEPT !.stop_recording_on_voice_deactivity = TRUE]
            /\ caller' = [caller EXCEPT !.pc = "wa_wait_stop"]
       ELSE /\ rec' = rec
            /\ caller' = [caller EXCEPT !.pc = "wa_final"]
    /\ UNCHANGED pipe_req
    /\ CallerUnchanged

\* wait_audio: the loop that waits for stop_recording_event ends
WaWaitStop ==
    /\ caller.pc = "wa_wait_stop"
    /\ rec.interrupt_stop_event \/ rec.stop_recording_event
    /\ caller' = [caller EXCEPT !.pc = "wa_final"]
    /\ UNCHANGED <<rec, pipe_req>>
    /\ CallerUnchanged

\* wait_audio: the utterance is finalized; wait_audio returns
WaFinal ==
    /\ caller.pc = "wa_final"
    /\ rec' = FinalizeUtterance(rec)
    /\ caller' = [caller EXCEPT !.pc = IF caller.in_text THEN "text_check" ELSE "idle"]
    /\ hist' = [hist EXCEPT !.stop_pending = FALSE, !.utterance = <<>>,
                            !.stop_b = 0, !.stop_r = 0,
                            !.carried = Flatten(rec'.frames)]
    /\ UNCHANGED <<cfg, now, audio_queue, next_frame, cap, wk, silero_threads, ctl,
                   pipe_req, pipe_res, tw_queue, sd>>

\* text(): after wait_audio, return "" when shut down or interrupted
TextCheck ==
    /\ caller.pc = "text_check"
    /\ IF rec.is_shut_down \/ rec.interrupt_stop_event
       THEN /\ rec' = IF rec.interrupt_stop_event
                      THEN [rec EXCEPT !.was_interrupted = TRUE] ELSE rec
            /\ caller' = [caller EXCEPT !.pc = "idle", !.returned = "empty"]
       ELSE /\ rec' = rec
            /\ caller' = [caller EXCEPT !.pc = "tr_begin"]
    /\ UNCHANGED pipe_req
    /\ CallerUnchanged

\* transcribe(): the lock is taken; a request is sent if none is in flight
TrBegin ==
    /\ caller.pc = "tr_begin"
    /\ rec.transcription_lock = Free
    /\ LET s1 == [_set_state(rec, "transcribing") EXCEPT !.transcription_lock = "caller"]
       IN  IF s1.transcribe_count = 0
           THEN /\ pipe_req' = Append(pipe_req, _add_padding_to_audio(s1.audio))
                /\ rec' = s1
                /\ caller' = [caller EXCEPT !.pc = "tr_inc", !.status = "unset",
                                            !.count = s1.transcribe_count]
           ELSE /\ pipe_req' = pipe_req
                /\ rec' = s1
                /\ caller' = [caller EXCEPT !.pc = "tr_wait", !.status = "unset"]
    /\ hist' = [hist EXCEPT !.waits_for_earlier = rec.transcribe_count # 0,
                            !.got_error = FALSE]
    /\ UNCHANGED <<cfg, now, audio_queue, next_frame, cap, wk, silero_threads, ctl,
                   pipe_res, tw_queue, sd>>

\* TrInc adding to the counter as it is now, and once more
TrInc_Twice ==
    /\ caller.pc = "tr_inc"
    /\ rec' = [rec EXCEPT !.transcribe_count = @ + 2]
    /\ caller' = [caller EXCEPT !.pc = "tr_wait", !.count = 0]
    /\ UNCHANGED pipe_req
    /\ CallerUnchanged

\* transcribe(): the store of `self.transcribe_count += 1`
TrInc ==
    /\ caller.pc = "tr_inc"
    /\ rec' = [rec EXCEPT !.transcribe_count = caller.count + 1]
    /\ caller' = [caller EXCEPT !.pc = "tr_wait", !.count = 0]
    /\ UNCHANGED pipe_req
    /\ CallerUnchanged


\* transcribe(): one turn of `while self.transcribe_count > 0`
TrWait ==
    /\ caller.pc = "tr_wait"
    /\ IF rec.transcribe_count > 0
       THEN IF pipe_res # <<>>
            THEN \* poll() is true: recv(), then the load of `-= 1`
                 /\ pipe_res' = Tail(pipe_res)
                 /\ caller' = [caller EXCEPT !.pc = "tr_dec",
                                             !.status = Head(pipe_res).status,
                                             !.result = Head(pipe_res).result,
                                             !.count = rec.transcribe_count]
                 /\ rec' = rec
                 /\ hist' = [hist EXCEPT
                                !.got_error = @ \/ Head(pipe_res).status = "error"]
            ELSE \* poll() timed out: only an interrupt ends the wait
                 /\ rec.interrupt_stop_event
                 /\ rec' = [_set_state(rec, "inactive") EXCEPT
                               !.was_interrupted = TRUE,
                               !.transcription_lock = Free]
                 /\ caller' = TextReturn(caller, "empty", <<>>)
                 /\ pipe_res' = pipe_res
                 /\ hist' = hist
       ELSE /\ caller' = [caller EXCEPT !.pc = "tr_done"]
            /\ UNCHANGED <<rec, pipe_res, hist>>
    /\ UNCHANGED <<cfg, now, audio_queue, next_frame, cap, wk, silero_threads, ctl,
                   pipe_req, tw_queue, sd>>

\* TrDec taking two from the counter
TrDec_Twice ==
    /\ caller.pc = "tr_dec"
    /\ rec' = [rec EXCEPT !.transcribe_count = caller.count - 2]
    /\ caller' = [caller EXCEPT !.pc = "tr_wait", !.count = 0]
    /\ UNCHANGED pipe_req
    /\ CallerUnchanged

\* transcribe(): the store of `self.transcribe_count -= 1`
TrDec ==
    /\ caller.pc = "tr_dec"
    /\ rec' = [rec EXCEPT !.transcribe_count = caller.count - 1]
    /\ caller' = [caller EXCEPT !.pc = "tr_wait", !.count = 0]
    /\ UNCHANGED pipe_req
    /\ CallerUnchanged

\* transcribe(): after the loop, the text is returned or the error raised
TrDone ==
    /\ caller.pc = "tr_done"
    /\ rec' = [_set_state(rec, "inactive") EXCEPT
                  !.allowed_to_early_transcribe = TRUE,
                  !.transcription_lock = Free]
    /\ caller' = IF caller.status = "success"
                 THEN TextReturn(caller,
                                 IF rec.interrupt_stop_event THEN "empty" ELSE "text",
                                 caller.result)
                 ELSE [caller EXCEPT !.pc = "idle", !.returned = "error"]
    /\ UNCHANGED pipe_req
    /\ CallerUnchanged

\* a thread started by text() runs on_transcription_finished
CallbackRun ==
    /\ caller.threads # <<>>
    /\ caller' = [caller EXCEPT !.threads = Tail(@)]
    /\ hist' = [hist EXCEPT !.finished = Append(@, Head(caller.threads))]
    /\ UNCHANGED <<rec, cfg, now, audio_queue, next_frame, cap, wk, silero_threads,
                   ctl, pipe_req, pipe_res, tw_queue, sd>>

----------------------------------------------------------------------------
(* The TranscriptionWorker *)

\* poll_connection: a request is moved from the pipe to the queue
TwPoll ==
    /\ pipe_req # <<>>
    /\ ~rec.shutdown_event
    /\ tw_queue' = Append(tw_queue, Head(pipe_req))
    /\ pipe_req' = Tail(pipe_req)
    /\ hist' = [hist EXCEPT !.tw_received = Append(@, Head(pipe_req))]
    /\ UNCHANGED <<rec, cfg, now, audio_queue, next_frame, cap, wk, silero_threads,
                   caller, ctl, pipe_res, sd>>

\* a run that takes the request that was queued last
TwRun_Newest ==
    /\ tw_queue # <<>>
    /\ ~rec.shutdown_event
    /\ LET request == tw_queue[Len(tw_queue)]
       IN  \E ok \in cfg.engine_outcomes :
             LET status == IF ok THEN "success" ELSE "error"
             IN  /\ pipe_res' = Append(pipe_res,
                        [status |-> status,
                         result |-> IF ok THEN Transcript(request) ELSE <<>>])
                 /\ hist' = [hist EXCEPT !.tw_answered =
                                Append(@, [request |-> request, status |-> status])]
    /\ tw_queue' = SubSeq(tw_queue, 1, Len(tw_queue) - 1)
    /\ UNCHANGED <<rec, cfg, now, audio_queue, next_frame, cap, wk, silero_threads,
                   caller, ctl, pipe_req, sd>>

\* run: one request is taken from the queue and transcribed, and its tagged
\* result is sent
TwRun ==
    /\ tw_queue # <<>>
    /\ ~rec.shutdown_event
    /\ LET request == Head(tw_queue)
       IN  \E ok \in cfg.engine_outcomes :
             LET status == IF ok THEN "success" ELSE "error"
             IN  /\ pipe_res' = Append(pipe_res,
                        [status |-> status,
                         result |-> IF ok THEN Transcript(request) ELSE <<>>])
                 /\ hist' = [hist EXCEPT !.tw_answered =
                                Append(@, [request |-> request, status |-> status])]
    /\ tw_queue' = Tail(tw_queue)
    /\ UNCHANGED <<rec, cfg, now, audio_queue, next_frame, cap, wk, silero_threads,
                   caller, ctl, pipe_req, sd>>

----------------------------------------------------------------------------
(* The control thread: start(), stop(), listen(), clear_audio_queue(),     *)
(* abort()                                                                 *)

InitCtl == [ pc |-> "idle", calls |-> 0 ]

\* the history after a call of stop() that stopped the recording
Stopped(h) ==
    [h EXCEPT !.silence_since = 0, !.timed_since = 0, !.voice_starts = 0,
              !.gated = FALSE, !.listened = FALSE,
              !.stop_pending = FALSE, !.utterance = <<>>,
              !.stop_b = 0, !.stop_r = 0,
              !.early_req = <<>>, !.episode_sent = 0, !.kept = "none",
              !.last_recorded = h.recorded]

CtlUnchanged ==
    UNCHANGED <<cfg, now, next_frame, cap, wk, silero_threads, caller, pipe_req,
                pipe_res, tw_queue, sd>>

CtlCall ==
    /\ ctl.pc = "idle"
    /\ ctl.calls < cfg.max_calls
    /\ ~rec.is_shut_down

CtlStart ==
    /\ CtlCall
    /\ rec' = start(rec, now)
    /\ ctl' = [ctl EXCEPT !.calls = @ + 1]
    /\ hist' = IF rec'.on_recording_start > rec.on_recording_start
               THEN [hist EXCEPT !.pristine = FALSE, !.silence_since = 0,
                                 !.timed_since = 0,
                                 !.ww_episode = "none", !.ww_recorded = TRUE,
                                 !.stop_pending = FALSE, !.utterance = <<>>,
                                 !.stop_b = 0, !.stop_r = 0,
                                 !.early_req = <<>>, !.episode_sent = 0,
                                 !.refused = FALSE, !.kept = "none",
                                 !.recorded = <<>>]
               ELSE [hist EXCEPT !.refused = TRUE]
    /\ UNCHANGED audio_queue
    /\ CtlUnchanged

CtlStop ==
    /\ CtlCall
    /\ \E b \in cfg.stop_backdates, r \in cfg.resume_backdates :
          /\ rec' = stop(rec, now, b, r)
          /\ hist' = IF rec'.on_recording_stop > rec.on_recording_stop
                     THEN [Stopped(hist) EXCEPT !.stop_pending = TRUE,
                                                !.utterance = Flatten(rec.frames),
                                                !.stop_b = b,
                                                !.stop_r = r]
                     ELSE IF rec.is_recording
                          THEN [hist EXCEPT !.kept = "stop"]
                          ELSE hist
    /\ ctl' = [ctl EXCEPT !.calls = @ + 1]
    /\ UNCHANGED audio_queue
    /\ CtlUnchanged

CtlListen ==
    /\ CtlCall
    /\ rec' = listen(rec, now)
    /\ ctl' = [ctl EXCEPT !.calls = @ + 1]
    /\ hist' = [hist EXCEPT
                   !.ww_episode = IF @ \in {"timeout", "after"} THEN "none" ELSE @,
                   !.listened = rec.state = "inactive" /\ ~rec.is_recording,
                   !.gated = FALSE,
                   !.voice_starts = IF rec.is_recording THEN @ ELSE 0]
    /\ UNCHANGED audio_queue
    /\ CtlUnchanged

CtlClearAudioQueue ==
    /\ CtlCall
    /\ rec' = clear_audio_buffer(rec)
    /\ audio_queue' = <<>>
    /\ ctl' = [ctl EXCEPT !.calls = @ + 1]
    /\ hist' = [hist EXCEPT !.pristine = FALSE]
    /\ CtlUnchanged

\* set_microphone(microphone_on)
CtlSetMicrophone ==
    /\ CtlCall
    /\ \E microphone_on \in BOOLEAN :
          rec' = [rec EXCEPT !.use_microphone = microphone_on]
    /\ ctl' = [ctl EXCEPT !.calls = @ + 1]
    /\ UNCHANGED <<audio_queue, hist>>
    /\ CtlUnchanged

\* abort(), up to `self.was_interrupted.wait()`
CtlAbort ==
    /\ CtlCall
    /\ LET s1 == [rec EXCEPT !.start_recording_on_voice_activity = FALSE,
                             !.stop_recording_on_voice_deactivity = FALSE,
                             !.interrupt_stop_event = TRUE]
       IN  IF s1.state # "inactive"
           THEN /\ rec' = s1
                /\ ctl' = [ctl EXCEPT !.pc = "abort_wait", !.calls = @ + 1]
                /\ hist' = hist
           ELSE LET s2 == [s1 EXCEPT !.was_interrupted = FALSE]
                    s3 == IF s2.is_recording THEN stop(s2, now, 0, 0) ELSE s2
                IN  /\ rec' = s3
                    /\ ctl' = [ctl EXCEPT !.calls = @ + 1]
                    /\ hist' = IF s3.on_recording_stop > rec.on_recording_stop
                               THEN Stopped(hist)
                               ELSE IF s2.is_recording
                                    THEN [hist EXCEPT !.kept = "abort"]
                                    ELSE hist
    /\ UNCHANGED audio_queue
    /\ CtlUnchanged

\* abort(), once was_interrupted is set
CtlAbortWait ==
    /\ ctl.pc = "abort_wait"
    /\ rec.was_interrupted
    /\ LET s1 == [_set_state(rec, "transcribing") EXCEPT !.was_interrupted = FALSE]
           s2 == IF s1.is_recording THEN stop(s1, now, 0, 0) ELSE s1
       IN  /\ rec' = s2
           /\ hist' = IF s2.on_recording_stop > rec.on_recording_stop
                      THEN Stopped(hist)
                      ELSE IF s1.is_recording
                           THEN [hist EXCEPT !.kept = "abort"]
                           ELSE hist
    /\ ctl' = [ctl EXCEPT !.pc = "idle"]
    /\ UNCHANGED audio_queue
    /\ CtlUnchanged

----------------------------------------------------------------------------
(* shutdown(), called by the threads of ShutdownCallers; "exit" is the     *)
(* call made by __exit__                                                   *)

ShutdownCallers == {"main", "other", "exit"}

SdUnchanged ==
    UNCHANGED <<cfg, now, audio_queue, next_frame, cap, wk, silero_threads, caller,
                ctl, pipe_req, pipe_res, tw_queue>>

\* a lock that lets every thread in
ShutdownLock_Ignored(s) == TRUE

\* `with self.shutdown_lock` lets a thread in
ShutdownLockFree(s) == s.shutdown_lock = Free

\* `if self.is_shut_down: return`
AlreadyShutDown(s) == s.is_shut_down

\* shutdown(): the lock is acquired
SdAcquire(i) ==
    /\ sd[i] = "idle"
    /\ ShutdownLockFree(rec)
    /\ rec' = [rec EXCEPT !.shutdown_lock = i]
    /\ sd' = [sd EXCEPT ![i] = "locked"]
    /\ UNCHANGED hist
    /\ SdUnchanged

\* shutdown(): a repeated call returns at once
SdReturnEarly(i) ==
    /\ sd[i] = "locked"
    /\ AlreadyShutDown(rec)
    /\ rec' = [rec EXCEPT !.shutdown_lock = Free]
    /\ sd' = [sd EXCEPT ![i] = "done"]
    /\ hist' = [hist EXCEPT !.returned = @ + 1]
    /\ SdUnchanged

\* shutdown(): the first call goes on to the teardown
SdEnter(i) ==
    /\ sd[i] = "locked"
    /\ ~AlreadyShutDown(rec)
    /\ sd' = [sd EXCEPT ![i] = "flags"]
    /\ UNCHANGED <<rec, hist>>
    /\ SdUnchanged

\* shutdown(): the flags and events are set
SdFlags(i) ==
    /\ sd[i] = "flags"
    /\ rec' = [rec EXCEPT !.is_shut_down = TRUE,
                          !.start_recording_event = TRUE,
                          !.stop_recording_event = TRUE,
                          !.shutdown_event = TRUE,
                          !.is_recording = FALSE,
                          !.is_running = FALSE]
    /\ sd' = [sd EXCEPT ![i] = "join"]
    /\ hist' = [hist EXCEPT !.teardowns = @ + 1]
    /\ SdUnchanged

\* shutdown(): recording_thread.join() returns once the loop has ended
SdJoin(i) ==
    /\ sd[i] = "join"
    /\ wk.pc = "exited"
    /\ sd' = [sd EXCEPT ![i] = "close"]
    /\ hist' = [hist EXCEPT !.joins = @ + 1]
    /\ UNCHANGED rec
    /\ SdUnchanged

\* shutdown(): `if self.use_microphone.value`, the reader process is
\* joined (the capture worker ends within the timeout of the join once
\* shutdown_event is set); self.reader_process is an attribute only if
\* __init__ started the process, and shutdown() raises if it reads it
\* otherwise; then the transcription process is joined or terminated, the
\* pipe is closed, and the lock is released
SdClose(i) ==
    /\ sd[i] = "close"
    /\ rec.use_microphone /\ cap.pc # "none" => cap.pc = "ended"
    /\ rec' = [rec EXCEPT !.shutdown_lock = Free]
    /\ IF rec.use_microphone /\ cap.pc = "none"
       THEN /\ sd' = [sd EXCEPT ![i] = "raised"]
            /\ hist' = hist
       ELSE /\ sd' = [sd EXCEPT ![i] = "done"]
            /\ hist' = [hist EXCEPT !.pipe_closed = @ + 1, !.returned = @ + 1,
                                    !.reader_joins =
                                        IF rec.use_microphone THEN @ + 1 ELSE @]
    /\ SdUnchanged

----------------------------------------------------------------------------
(* The specifications *)

BaseCfg ==
    [ use_wake_words |-> FALSE,
      early_transcription_on_silence |-> 0,
      handle_buffer_overflow |-> FALSE,
      silero_deactivity_detection |-> TRUE,
      min_gap_between_recordings |-> MinGap,
      post_speech_silence_duration |-> PostSilenceShort,
      stop_backdates |-> {0},
      resume_backdates |-> {0},
      engine_outcomes |-> {TRUE},
      use_microphone |-> TRUE,
      callbacks |-> {FALSE},
      sample_rate |-> sample_rate,
      buffer_size |-> buffer_size,
      pre_recording_buffer_duration |-> pre_recording_buffer_duration * Tenths,
      tick |-> 1,
      horizon |-> CoreHorizon,
      max_frames |-> CoreFrames,
      max_queue |-> MaxQueue,
      max_calls |-> CoreCalls,
      max_texts |-> CoreTexts ]

InitWith(c) ==
    /\ cfg = c
    /\ rec = InitRecorder(c.use_microphone)
    /\ now = T0
    /\ audio_queue = <<>>
    /\ next_frame = 1
    /\ cap = InitCapture(c.use_microphone)
    /\ wk = InitWorker
    /\ silero_threads = 0
    /\ caller = InitCaller
    /\ ctl = InitCtl
    /\ pipe_req = <<>>
    /\ pipe_res = <<>>
    /\ tw_queue = <<>>
    /\ sd = [i \in ShutdownCallers |-> "idle"]
    /\ hist = InitHist

Capture == CaptureFrame \/ Tick

Controller == WorkerIterate \/ SileroFinish

WaitAudioSteps ==
    \/ WaBegin
    \/ WaWaitStart
    \/ WaCheck
    \/ WaWaitStop
    \/ WaFinal

WaitAudio == CallWaitAudio \/ WaitAudioSteps

\* transcribe() when a request is in flight already, and the worker
TranscribeWait ==
    \/ TrBegin
    \/ TrWait
    \/ TrDec
    \/ TrDone
    \/ TwPoll
    \/ TwRun

Transcribe == TrInc \/ TranscribeWait

Text == CallText \/ TextCheck

Control == CtlStart \/ CtlStop \/ CtlListen

Abort == CtlAbort \/ CtlAbortWait

Shutdown ==
    \E i \in ShutdownCallers :
        \/ SdAcquire(i)
        \/ SdReturnEarly(i)
        \/ SdEnter(i)
        \/ SdFlags(i)
        \/ SdJoin(i)
        \/ SdClose(i)

\* the whole recorder, early transcription and overflow handling off
Init == InitWith(BaseCfg)

Next ==
    \/ Capture
    \/ Controller
    \/ WaitAudio
    \/ Text
    \/ CallTranscribe
    \/ Transcribe
    \/ Control
    \/ Abort
    \/ CtlClearAudioQueue

Spec == Init /\ [][Next]_vars

\* a recording that wait_audio() ends on silence
InitSilence ==
    InitWith([BaseCfg EXCEPT !.horizon = SilenceHorizon,
                             !.max_frames = SilenceFrames,
                             !.max_calls = SilenceCalls,
                             !.max_texts = SilenceTexts])

NextSilence == Capture \/ Controller \/ WaitAudio \/ Control

SpecSilence == InitSilence /\ [][NextSilence]_vars

\* listen(), start() and stop() without a caller in wait_audio()
NextListen == Capture \/ Controller \/ Control

\* a recording, wait_audio() and listen() within the minimum gap
InitGap ==
    InitWith([BaseCfg EXCEPT !.horizon = GapHorizon,
                             !.max_frames = GapFrames,
                             !.max_calls = GapCalls,
                             !.max_texts = GapTexts])

SpecGap == InitGap /\ [][NextSilence]_vars

\* wake words configured
InitWake ==
    InitWith([BaseCfg EXCEPT !.use_wake_words = TRUE,
                             !.silero_deactivity_detection = FALSE,
                             !.horizon = WakeHorizon,
                             !.max_frames = WakeFrames,
                             !.max_calls = WakeCalls])

SpecWake == InitWake /\ [][NextListen]_vars

\* frames that come before any recording, with wake words configured
InitPreRoll ==
    InitWith([BaseCfg EXCEPT !.use_wake_words = TRUE,
                             !.horizon = PreRollHorizon,
                             !.max_frames = PreRollFrames,
                             !.max_calls = PreRollCalls])

SpecPreRoll == InitPreRoll /\ [][NextListen]_vars

\* early transcription on silence: a recording that ends on silence has
\* sent an early request, so that text() finds transcribe_count above 0
InitEarly ==
    InitWith([BaseCfg EXCEPT !.early_transcription_on_silence = EarlyThreshold,
                             !.post_speech_silence_duration = PostSilenceLong,
                             !.tick = EarlyThreshold + 1,
                             !.horizon = EarlyHorizon,
                             !.max_frames = EarlyFrames,
                             !.max_calls = EarlyCalls,
                             !.max_texts = EarlyTexts])

NextEarly ==
    \/ Capture
    \/ WorkerIterate
    \/ WorkerEarly
    \/ CtlStart
    \/ WaitAudioSteps
    \/ Text
    \/ TranscribeWait

SpecEarly == InitEarly /\ [][NextEarly]_vars

\* the overflow handling of the frame channel
InitOverflow ==
    InitWith([BaseCfg EXCEPT !.handle_buffer_overflow = TRUE,
                             !.horizon = 0,
                             !.max_frames = OverflowFrames,
                             !.max_queue = OverflowQueue,
                             !.max_calls = OverflowCalls])

NextOverflow ==
    \/ CaptureFrame
    \/ Controller
    \/ CtlListen
    \/ CtlClearAudioQueue

SpecOverflow == InitOverflow /\ [][NextOverflow]_vars

\* shutdown() called by several threads
InitShutdown ==
    InitWith([BaseCfg EXCEPT !.horizon = 0,
                             !.max_frames = ShutdownFrames,
                             !.max_calls = ShutdownCalls])

NextShutdown ==
    \/ CaptureFrame
    \/ CaptureFlush
    \/ CaptureRelease
    \/ Controller
    \/ WorkerExit
    \/ CtlListen
    \/ Shutdown

SpecShutdown == InitShutdown /\ [][NextShutdown]_vars

\* start(), stop() with backdate offsets, and wait_audio()
InitBackdate ==
    InitWith([BaseCfg EXCEPT !.stop_backdates = {0, 1, 2},
                             !.resume_backdates = {0, 1},
                             !.horizon = BackdateHorizon,
                             !.max_frames = BackdateFrames,
                             !.max_calls = BackdateCalls,
                             !.max_texts = BackdateTexts])

NextBackdate ==
    \/ Capture
    \/ Controller
    \/ WaitAudio
    \/ CtlStart
    \/ CtlStop

SpecBackdate == InitBackdate /\ [][NextBackdate]_vars

----------------------------------------------------------------------------
(* The claims *)

\* an iteration of the recording thread that classified its frame
Classified(class) ==
    /\ wk.pc = "get"
    /\ audio_queue' # audio_queue
    /\ ctl' = ctl
    /\ rec.is_recording
    /\ rec.stop_recording_on_voice_deactivity
    /\ hist'.last_class = class

\* C1, as stated: a recording does not outlive an iteration at which the
\* frames classified non-speech have run for post_speech_silence_duration
\* or more and the recording is longer than min_length_of_recording.
C1_AsStated ==
    ~ ( /\ rec.is_recording
        /\ hist.silence_since # 0
        /\ hist.last_time - hist.silence_since >= cfg.post_speech_silence_duration
        /\ hist.last_time - rec.recording_start_time > min_length_of_recording )

\* the silence measured from the first non-speech frame that is processed
\* after the recording has become longer than min_length_of_recording
C1_Timer ==
    /\ rec.is_recording /\ hist.timed_since # 0
           => hist.last_time - hist.timed_since < cfg.post_speech_silence_duration
    /\ rec.is_recording /\ hist.timed_since # 0
           => rec.speech_end_silence_start # 0
                 /\ rec.speech_end_silence_start <= hist.timed_since

\* the iteration that stops the recording on silence, and the return of
\* wait_audio()
C1_Finalize ==
    /\ Classified("silence") /\ ~rec'.is_recording
           => /\ rec'.on_recording_stop = rec.on_recording_stop + 1
              /\ rec'.stop_recording_event
              /\ rec'.recording_stop_time = now
              /\ rec'.last_frames = Append(rec.frames, Head(audio_queue))
              /\ rec'.state = rec.state
    /\ caller.pc = "wa_final" /\ caller'.pc # "wa_final"
           => rec'.state = "inactive"

\* C1, amended: on a recording whose stop on voice deactivity wait_audio()
\* has armed, the silence is measured from the first non-speech frame that
\* is processed after the recording became longer than
\* min_length_of_recording; the recording does not outlive an iteration at
\* which that silence has lasted post_speech_silence_duration or more: the
\* iteration ends the recording (is_recording false, one recording-stop
\* notification, the stop event set) and leaves the state as it is; the
\* state becomes inactive when wait_audio() returns.
C1_SilenceStop == []C1_Timer /\ [][C1_Finalize]_vars

\* C1, reached: a recording has just been stopped by the silence rule
C1_Witness ==
    /\ hist.last_class = "silence"
    /\ ~rec.is_recording
    /\ rec.on_recording_stop = 1
    /\ rec.recording_stop_time = hist.last_time
    /\ rec.stop_recording_event
    /\ rec.state = "recording"
    /\ caller.pc = "wa_wait_stop"

\* C2: during a recording, a frame classified speech that is processed
\* after non-speech frames did not yet stop the recording leaves the
\* recording running (is_recording true, the state unchanged, no
\* recording-stop notification) and sets speech_end_silence_start to zero.
C2_SpeechResumes ==
    [][ Classified("speech")
           => /\ rec'.is_recording
              /\ rec'.state = rec.state
              /\ rec'.on_recording_stop = rec.on_recording_stop
              /\ rec'.speech_end_silence_start = 0 ]_vars

\* C2, reached: a speech frame has just reset a running silence timer
C2_Witness ==
    /\ hist.reset
    /\ rec.is_recording
    /\ rec.state = "recording"
    /\ rec.speech_end_silence_start = 0
    /\ hist.last_class = "speech"

\* C3, as stated: once listen() was called in state inactive and the
\* recording thread has found the voice-activity gate true, a recording is
\* in progress in state recording and it was started once, until stop().
C3_AsStated ==
    hist.gated
        => /\ rec.is_recording
           /\ rec.state = "recording"
           /\ hist.voice_starts = 1

\* C4: with early transcription off, transcribe_count is 0 or 1.
C4_ZeroOrOne == rec.transcribe_count \in {0, 1}

\* C4, reached: a transcribe() that waits for the request of an interrupted call
C4_Witness ==
    /\ rec.transcribe_count = 1
    /\ caller.pc = "tr_wait"
    /\ hist.waits_for_earlier
    /\ caller.calls >= 2

C7_Len == Len(rec.audio_buffer) <= AudioBufferMaxlen

\* a step that changes a full buffer without draining it
C7_Evict ==
    /\ Len(rec.audio_buffer) = AudioBufferMaxlen
    /\ rec'.audio_buffer # rec.audio_buffer
    /\ Len(rec'.audio_buffer) > 1
    => rec'.audio_buffer = Append(Tail(rec.audio_buffer), Head(audio_queue))

\* C7: in every reachable state audio_buffer holds at most its capacity of
\* frames, and an append to a full buffer evicts the oldest frame.
C7_Capacity == []C7_Len /\ [][C7_Evict]_vars

\* C7, reached: a frame of trailing silence, buffered during a recording, has evicted
\* the oldest frame of a full buffer
C7_Witness ==
    /\ rec.is_recording
    /\ rec.speech_end_silence_start # 0
    /\ Len(rec.audio_buffer) = AudioBufferMaxlen
    /\ rec.audio_buffer = <<Frame(2), Frame(3)>>

\* the frames of audio_queue are in capture order, every discarded frame is
\* older than every frame that waits, and the frame enqueued last was not
\* discarded
C8_Kept ==
    /\ \A i \in 1..(Len(audio_queue) - 1) :
           audio_queue[i][1] < audio_queue[i + 1][1]
    /\ \A i \in 1..Len(hist.dropped) :
           /\ hist.dropped[i] # hist.last_put
           /\ \A j \in 1..Len(audio_queue) :
                  hist.dropped[i][1] < audio_queue[j][1]

\* an iteration discards the oldest frames, as many as bring the depth
\* down to allowed_latency_limit and none when the depth is within it
C8_Discard ==
    /\ wk.pc = "get"
    /\ ctl' = ctl
    /\ Len(audio_queue') < Len(audio_queue)
    => LET depth == Len(audio_queue) - 1
           k == IF depth > allowed_latency_limit
                THEN depth - allowed_latency_limit ELSE 0
       IN  /\ hist'.dropped = hist.dropped \o SubSeq(audio_queue, 1, k)
           /\ audio_queue' = SubSeq(audio_queue, k + 2, Len(audio_queue))
           /\ Len(audio_queue') <= allowed_latency_limit

\* C8: with the overflow handling on, an iteration that finds more than
\* allowed_latency_limit frames waiting discards the oldest of them until
\* the depth is allowed_latency_limit; the frame enqueued last is never
\* discarded and the frames kept stay in capture order.
C8_Overflow == []C8_Kept /\ [][C8_Discard]_vars

\* C8, reached: two frames were discarded, the third was processed, the fourth waits
C8_Witness ==
    /\ hist.dropped = <<Frame(1), Frame(2)>>
    /\ audio_queue = <<Frame(4)>>
    /\ hist.last_put = Frame(4)

\* the teardown has run at most once, and once if a call has returned
C9_Teardown ==
    /\ hist.teardowns <= 1
    /\ hist.joins <= 1
    /\ hist.pipe_closed <= 1
    /\ hist.returned >= 1 => hist.teardowns = 1 /\ rec.is_shut_down

\* a call that finds is_shut_down set releases the lock and does no more
C9_Later ==
    \A i \in ShutdownCallers :
        sd[i] = "locked" /\ rec.is_shut_down /\ sd'[i] # sd[i]
            => /\ sd'[i] = "done"
               /\ rec' = [rec EXCEPT !.shutdown_lock = Free]
               /\ hist' = [hist EXCEPT !.returned = @ + 1]
               /\ UNCHANGED <<audio_queue, wk, pipe_req, pipe_res, tw_queue>>

\* C9: however many threads call shutdown(), the call of __exit__ among
\* them, the teardown (the flags, the join of the recording thread, the
\* closing of the transcription pipe) runs once, and every other call
\* returns without changing anything.
C9_Once == []C9_Teardown /\ [][C9_Later]_vars

\* C9, reached: the three calls have returned after one teardown
C9_Witness ==
    /\ \A i \in ShutdownCallers : sd[i] = "done"
    /\ hist.returned = 3
    /\ hist.teardowns = 1
    /\ hist.pipe_closed = 1

\* C10, as stated: when the wake word timeout has fired, the timeout was
\* notified, the wake word event is cleared and no recording was started
\* since the detection; by the next frame processed with the activation
\* delay passed the state is wakeword again.
C10_AsStated ==
    /\ hist.ww_episode \in {"timeout", "after"}
           => /\ ~rec.wakeword_detected
              /\ rec.wake_word_detect_time = 0
              /\ rec.on_wakeword_timeout >= 1
              /\ ~hist.ww_recorded
              /\ ~rec.is_recording
    /\ hist.ww_episode = "after" => rec.state = "wakeword"

\* early transcription, a recording ended by stop(), and text()
InitStale ==
    InitWith([BaseCfg EXCEPT !.early_transcription_on_silence = EarlyThreshold,
                             !.post_speech_silence_duration = PostSilenceLong,
                             !.tick = EarlyThreshold + 1,
                             !.horizon = StaleHorizon,
                             !.max_frames = StaleFrames,
                             !.max_calls = StaleCalls,
                             !.max_texts = StaleTexts])

NextStale ==
    \/ Capture
    \/ WorkerIterate
    \/ WorkerEarly
    \/ CtlStart
    \/ CtlStop
    \/ WaitAudioSteps
    \/ Text
    \/ Transcribe

SpecStale == InitStale /\ [][NextStale]_vars

\* early transcription, and a recording started while text() transcribes
\* the utterance before it
InitRearm ==
    InitWith([BaseCfg EXCEPT !.early_transcription_on_silence = EarlyThreshold,
                             !.post_speech_silence_duration = PostSilenceLong,
                             !.tick = EarlyThreshold + 1,
                             !.horizon = RearmHorizon,
                             !.max_frames = RearmFrames,
                             !.max_calls = RearmCalls,
                             !.max_texts = RearmTexts])

SpecRearm == InitRearm /\ [][NextStale]_vars

\* text() and transcribe() interrupted by abort(), and the calls after it
InitMatch ==
    InitWith([BaseCfg EXCEPT !.horizon = MatchHorizon,
                             !.max_frames = MatchFrames,
                             !.max_calls = MatchCalls,
                             !.max_texts = MatchTexts])

NextMatch ==
    \/ Capture
    \/ Controller
    \/ CtlStart
    \/ CtlStop
    \/ Abort
    \/ WaitAudio
    \/ Text
    \/ CallTranscribe
    \/ Transcribe

SpecMatch == InitMatch /\ [][NextMatch]_vars

\* abort() while the caller waits, with an engine that may fail; the
\* threads of the caller and of abort() and the transcription process
\* keep running
InitInterrupt ==
    InitWith([BaseCfg EXCEPT !.engine_outcomes = {TRUE, FALSE},
                             !.horizon = InterruptHorizon,
                             !.max_frames = InterruptFrames,
                             !.max_calls = InterruptCalls,
                             !.max_texts = InterruptTexts])

NextInterrupt ==
    \/ Capture
    \/ Controller
    \/ CtlStart
    \/ CtlListen
    \/ Abort
    \/ WaitAudio
    \/ Text
    \/ CallTranscribe
    \/ Transcribe

\* the steps of a call in progress on the caller's thread
CallerSteps ==
    \/ WaitAudioSteps
    \/ TextCheck
    \/ TrBegin
    \/ TrInc
    \/ TrWait
    \/ TrDec
    \/ TrDone

FairInterrupt ==
    /\ InitInterrupt
    /\ [][NextInterrupt]_vars
    /\ WF_vars(CallerSteps)
    /\ WF_vars(TwPoll \/ TwRun)
    /\ WF_vars(Abort)

\* stop() called while the recording thread is inside an iteration
InitRace ==
    InitWith([BaseCfg EXCEPT !.stop_backdates = {0, 1},
                             !.resume_backdates = {0, 1},
                             !.tick = 2,
                             !.horizon = RaceHorizon,
                             !.max_frames = RaceFrames,
                             !.max_calls = RaceCalls,
                             !.max_texts = RaceTexts])

NextRace ==
    \/ Capture
    \/ WorkerIterate
    \/ WorkerHead
    \/ WorkerStopCheck
    \/ CtlStart
    \/ CtlStop
    \/ WaitAudio

SpecRace == InitRace /\ [][NextRace]_vars

----------------------------------------------------------------------------
(* The claims, continued *)

\* wait_audio() returns
Finalized == caller.pc = "wa_final" /\ caller'.pc # "wa_final"

\* the first Len(u) - int(sample_rate * b) samples of u, if any
Retained(u, b) ==
    IF Len(u) - sample_rate * b > 0
    THEN SubSeq(u, 1, Len(u) - sample_rate * b)
    ELSE <<>>

\* C11, as stated: when wait_audio() finalizes an utterance of L samples
\* that stop(backdate_stop_seconds = b) has stopped, self.audio is the first
\* L - int(sample_rate * b) samples of the utterance when that number is
\* positive and the empty signal otherwise; with b = 0 it is all L samples.
C11_AsStated ==
    [][ Finalized /\ hist.stop_pending
           => /\ rec'.audio = Retained(hist.utterance, hist.stop_b)
              /\ hist.stop_b = 0 => rec'.audio = hist.utterance ]_vars

\* C12, as stated: when wait_audio() returns and the finalization before it
\* carried samples over, the audio it returns is those samples followed by
\* the audio of a further recording.
C12_AsStated ==
    [][ Finalized /\ hist.carried # <<>>
           => /\ Len(rec'.audio) > Len(hist.carried)
              /\ SubSeq(rec'.audio, 1, Len(hist.carried)) = hist.carried ]_vars

\* C13, as stated: when early requests were sent in silence episodes that
\* ended with speech resuming, the text that transcribe() returns is the
\* result of none of them: it is the transcription of the finalized
\* utterance self.audio.
C13_AsStated ==
    caller.pc = "idle" /\ caller.returned = "text" /\ hist.stale # {}
        => /\ caller.result \notin hist.stale
           /\ caller.result = Transcript(_add_padding_to_audio(rec.audio))

\* C14, as stated: in one silence episode of a recording at most one early
\* transcription request is sent.
C14_AsStated == hist.episode_sent <= 1

\* C15, as stated: the text that a transcribe() call returns is the result
\* of the request that carried the audio of that call, self.audio.
C15_AsStated ==
    caller.pc = "idle" /\ caller.returned = "text"
        => caller.result = Transcript(_add_padding_to_audio(rec.audio))

\* the caller is in one of the three waits and the interrupt flag is set
InterruptedWait ==
    /\ rec.interrupt_stop_event
    /\ caller.pc \in {"wa_wait_start", "wa_wait_stop", "tr_wait"}

\* text() or transcribe() returns while the interrupt flag is set
ReturnsInterrupted ==
    /\ caller.pc \in {"text_check", "tr_wait", "tr_done"}
    /\ caller'.pc = "idle"
    /\ rec.interrupt_stop_event

C16_Empty ==
    ReturnsInterrupted
        => \/ caller'.returned = "empty"
           \/ caller.pc = "tr_done" /\ caller.status = "error"
                 /\ caller'.returned = "error"

C17_AsStated == (ctl.pc = "abort_wait") ~> (ctl.pc = "idle")

\* C18, as stated: when abort() returns after the call in progress has
\* acknowledged the interrupt, the state is inactive and no recording is in
\* progress.
C18_AsStated ==
    [][ ctl.pc = "abort_wait" /\ ctl'.pc = "idle"
           => rec'.state = "inactive" /\ ~rec'.is_recording ]_vars

\* C19, as stated: every change of self.state is a transition of the state
\* table: inactive to listening or wakeword, listening and wakeword to each
\* other and to recording, recording to inactive, inactive to transcribing,
\* transcribing to inactive, and any state to inactive.
C19_AsStated ==
    [][ rec'.state # rec.state
           => <<rec.state, rec'.state>> \in
                 { <<"inactive", "listening">>, <<"inactive", "wakeword">>,
                   <<"listening", "wakeword">>, <<"wakeword", "listening">>,
                   <<"listening", "recording">>, <<"wakeword", "recording">>,
                   <<"recording", "inactive">>, <<"inactive", "transcribing">>,
                   <<"transcribing", "inactive">>, <<"listening", "inactive">>,
                   <<"wakeword", "inactive">> } ]_vars

\* the recording thread ends an iteration
IterationEnds ==
    \/ wk.pc # "get" /\ wk'.pc = "get"
    \/ wk.pc = "get" /\ wk'.pc = "get" /\ audio_queue' # audio_queue /\ ctl' = ctl

\* C20, as stated: once stop() has ended a recording, the recording thread
\* does not run stop() for it again: no second recording-stop notification,
\* and the frames and the backdate offsets of that stop() stay as they are
\* until the finalization.
C20_AsStated ==
    [][ hist.stop_pending /\ IterationEnds
           => /\ rec'.on_recording_stop = rec.on_recording_stop
              /\ rec'.backdate_stop_seconds = rec.backdate_stop_seconds
              /\ rec'.backdate_resume_seconds = rec.backdate_resume_seconds
              /\ rec'.last_frames = rec.last_frames ]_vars

\* the time since the last stop is below min_gap_between_recordings
InGap == now - rec.recording_stop_time < cfg.min_gap_between_recordings

\* C21: while less than min_gap_between_recordings has passed since the
\* last stop, no step, and so no call of start(), whether explicit or made
\* by the recording thread on voice activity, starts a recording:
\* is_recording stays false, the state does not become recording, the
\* start event is not set and no recording-start notification fires.
C21_MinGap ==
    [][ InGap
           => /\ ~rec.is_recording /\ ~rec'.is_recording
              /\ rec'.state = "recording" => rec.state = "recording"
              /\ rec'.start_recording_event => rec.start_recording_event
              /\ rec'.on_recording_start = rec.on_recording_start ]_vars

\* C21, reached: a start() called within the gap after a recording was
\* stopped has returned without starting a recording
C21_Witness ==
    /\ InGap
    /\ hist.refused
    /\ rec.on_recording_start = 1
    /\ rec.on_recording_stop = 1
    /\ ~rec.is_recording
    /\ ~rec.start_recording_event
    /\ ctl.calls = 3

\* stop() called by the caller, by the recording thread and by abort()
\* while the recording is shorter than min_length_of_recording
InitMinLength ==
    InitWith([BaseCfg EXCEPT !.stop_backdates = {0, 1},
                             !.tick = 2,
                             !.horizon = MinLengthHorizon,
                             !.max_frames = MinLengthFrames,
                             !.max_calls = MinLengthCalls,
                             !.max_texts = MinLengthTexts])

NextMinLength ==
    \/ Capture
    \/ Controller
    \/ WaitAudioSteps
    \/ Text
    \/ CtlStart
    \/ CtlStop
    \/ Abort

SpecMinLength == InitMinLength /\ [][NextMinLength]_vars

\* a recording is in progress and is shorter than min_length_of_recording
Young ==
    /\ rec.is_recording
    /\ now - rec.recording_start_time < min_length_of_recording

\* what a stop() that is refused leaves as it is
C22_Kept ==
    /\ rec'.is_recording
    /\ rec'.last_frames = rec.last_frames
    /\ rec'.backdate_stop_seconds = rec.backdate_stop_seconds
    /\ rec'.backdate_resume_seconds = rec.backdate_resume_seconds
    /\ rec'.start_recording_event = rec.start_recording_event
    /\ rec'.stop_recording_event = rec.stop_recording_event
    /\ rec'.recording_stop_time = rec.recording_stop_time
    /\ rec'.on_recording_stop = rec.on_recording_stop

\* C22: a stop() called while the recording in progress is shorter than
\* min_length_of_recording changes nothing: is_recording stays true, the
\* frames, the backdate offsets, the start and stop events and the state
\* are as before and no recording-stop notification fires.  An explicit
\* stop() leaves the recorder as it is; the iteration of the recording
\* thread whose silence rule calls stop() only appends its frame, as every
\* iteration of a recording does; the stop() of abort() changes nothing
\* beyond what abort() itself sets.
C22_MinLength ==
    [][ Young
           => /\ CtlStop => rec' = rec
              /\ WorkerIterate /\ hist'.kept = "silence"
                     => /\ C22_Kept
                        /\ rec'.state = rec.state
                        /\ rec'.frames = Append(rec.frames, Head(audio_queue))
              /\ CtlAbortWait
                     => /\ C22_Kept
                        /\ rec'.frames = rec.frames
                        /\ rec'.state = "transcribing"
              /\ CtlAbort => C22_Kept /\ rec'.frames = rec.frames
                                 /\ rec'.state = rec.state ]_vars

\* C22, reached: the silence rule of the recording thread has called stop()
\* on a recording shorter than min_length_of_recording, which goes on
C22_Witness ==
    /\ hist.kept = "silence"
    /\ Young
    /\ rec.on_recording_start = 2
    /\ rec.on_recording_stop = 1
    /\ rec.speech_end_silence_start # 0
    /\ Len(rec.frames) = 1

\* early transcription with an engine that may fail: two silence episodes
\* of one recording, then text()
InitFailure ==
    InitWith([BaseCfg EXCEPT !.early_transcription_on_silence = EarlyThreshold,
                             !.post_speech_silence_duration = PostSilenceLong,
                             !.engine_outcomes = {TRUE, FALSE},
                             !.tick = EarlyThreshold + 1,
                             !.horizon = FailureHorizon,
                             !.max_frames = FailureFrames,
                             !.max_calls = FailureCalls,
                             !.max_texts = FailureTexts])

SpecFailure == InitFailure /\ [][NextStale]_vars

\* transcribe() returns
TranscribeReturns ==
    /\ caller.pc \in {"tr_wait", "tr_done"}
    /\ caller'.pc = "idle"

\* C23, as stated: a transcribe() that received a result with the error
\* status raises an error and returns no text; when it has raised,
\* transcribe_count is 0, the state is inactive and the transcription lock
\* is free.
C23_AsStated ==
    [][ TranscribeReturns /\ hist.got_error
           => /\ caller'.returned = "error"
              /\ rec'.transcribe_count = 0
              /\ rec'.state = "inactive"
              /\ rec'.transcription_lock = Free ]_vars

\* text() called with and without on_transcription_finished
InitCallback ==
    InitWith([BaseCfg EXCEPT !.callbacks = {TRUE, FALSE},
                             !.horizon = CallbackHorizon,
                             !.max_frames = CallbackFrames,
                             !.max_calls = CallbackCalls,
                             !.max_texts = CallbackTexts])

NextCallback ==
    \/ Capture
    \/ Controller
    \/ CtlStart
    \/ CtlStop
    \/ WaitAudioSteps
    \/ Text
    \/ Transcribe
    \/ CallbackRun

SpecCallback == InitCallback /\ [][NextCallback]_vars

\* C24, as stated: a text() called with a completion callback does not wait
\* for the transcription result: its caller's thread is never inside
\* transcribe(), neither sending the request nor waiting for its result.
C24_AsStated ==
    caller.in_text /\ caller.callback
        => caller.pc \notin {"tr_begin", "tr_inc", "tr_wait", "tr_dec", "tr_done"}

\* shutdown() and clear_audio_queue() while the recording thread handles
\* an overflow of the queue; the recording thread and the threads in
\* shutdown() keep running
InitTeardown ==
    InitWith([BaseCfg EXCEPT !.handle_buffer_overflow = TRUE,
                             !.horizon = 0,
                             !.max_frames = TeardownFrames,
                             !.max_queue = TeardownQueue,
                             !.max_calls = TeardownCalls])

\* the steps of the recording thread
WorkerSteps ==
    \/ WorkerPoll
    \/ WorkerQsize
    \/ WorkerDiscard
    \/ WorkerProcess
    \/ WorkerExit

NextTeardown ==
    \/ CaptureFrame
    \/ CaptureFlush
    \/ CaptureRelease
    \/ WorkerSteps
    \/ SileroFinish
    \/ CtlListen
    \/ CtlClearAudioQueue
    \/ Shutdown

FairTeardown ==
    /\ InitTeardown
    /\ [][NextTeardown]_vars
    /\ WF_vars(WorkerSteps)
    /\ WF_vars(CaptureFlush \/ CaptureRelease)
    /\ WF_vars(Shutdown)

\* C25, as stated: every call of shutdown() that has entered the teardown
\* returns, whatever the recording thread is doing.
C25_AsStated ==
    \A i \in ShutdownCallers : (sd[i] \notin {"idle", "done"}) ~> (sd[i] = "done")

\* C26, as stated: once is_running is cleared the loop of the recording
\* thread ends, also when clear_audio_queue() empties the queue while the
\* loop handles an overflow and no further frame arrives.
C26_AsStated == (~rec.is_running) ~> (wk.pc = "exited")

\* the constructor's computation of the capacity of audio_buffer, for the
\* sample rates and buffer sizes up to MaxRate and MaxSize and the defaults
\* SAMPLE_RATE and BUFFER_SIZE, and the durations up to MaxDuration tenths
InitCapacity ==
    /\ \E rate \in (1..MaxRate) \cup {SAMPLE_RATE},
          size \in (1..MaxSize) \cup {BUFFER_SIZE},
          duration \in 0..MaxDuration :
          InitWith([BaseCfg EXCEPT !.sample_rate = rate,
                                   !.buffer_size = size,
                                   !.pre_recording_buffer_duration = duration])

\* self.audio_buffer = collections.deque(maxlen=...)
Construct ==
    /\ hist.constructed = FALSE
    /\ rec' = [rec EXCEPT !.audio_buffer_maxlen =
                   Maxlen(cfg.sample_rate, cfg.buffer_size,
                          cfg.pre_recording_buffer_duration)]
    /\ hist' = [hist EXCEPT !.constructed = TRUE]
    /\ UNCHANGED <<cfg, now, audio_queue, next_frame, cap, wk, silero_threads, caller,
                   ctl, pipe_req, pipe_res, tw_queue, sd>>

SpecCapacity == InitCapacity /\ [][Construct]_vars

\* C27, as stated: the capacity of the pre-roll buffer is the ceiling of
\* (sample_rate / buffer_size) * pre_recording_buffer_duration.
C27_AsStated ==
    hist.constructed
        => rec.audio_buffer_maxlen =
               Ceiling(cfg.sample_rate * cfg.pre_recording_buffer_duration,
                       cfg.buffer_size * Tenths)

\* listen(), voice activity and start()
InitVoice ==
    InitWith([BaseCfg EXCEPT !.horizon = 0,
                             !.max_frames = VoiceFrames,
                             !.max_calls = VoiceCalls])

NextVoice ==
    \/ CaptureFrame
    \/ Controller
    \/ CtlListen
    \/ CtlStart

SpecVoice == InitVoice /\ [][NextVoice]_vars

\* an iteration of the recording thread starts a recording
VoiceStarts ==
    /\ wk.pc = "get"
    /\ ctl' = ctl
    /\ rec'.on_recording_start > rec.on_recording_start

\* C28, as stated: when the recording thread starts a recording on voice
\* activity, both classifiers have reported speech since the last report of
\* non-speech by either of them, Stage 2 for a frame processed after that
\* report: a positive Stage 2 result from before it starts no recording.
C28_AsStated ==
    [][VoiceStarts => hist.fresh_webrtc /\ hist.fresh_silero]_vars

\* a Stage 2 thread ends, writing its result, while a recording is in
\* progress
C29_Overwrites == rec.is_recording /\ silero_threads' < silero_threads

\* C29, as stated: at most one Stage 2 invocation runs at any time, and no
\* invocation started before a recording is still running, and writes its
\* result to the classifier flags, during that recording.
C29_AsStated == [](silero_threads <= 1) /\ [][~C29_Overwrites]_vars

\* wake words configured, text() and listen(), and abort()
InitWakeGate ==
    InitWith([BaseCfg EXCEPT !.use_wake_words = TRUE,
                             !.horizon = WakeGateHorizon,
                             !.max_frames = WakeGateFrames,
                             !.max_calls = WakeGateCalls,
                             !.max_texts = WakeGateTexts])

NextWakeGate ==
    \/ Capture
    \/ Controller
    \/ CtlListen
    \/ Abort
    \/ WaitAudioSteps
    \/ Text

SpecWakeGate == InitWakeGate /\ [][NextWakeGate]_vars

\* wake_word_activation_delay_passed, as the next iteration computes it
DelayPassed ==
    /\ rec.listen_start # 0
    /\ now - rec.listen_start > wake_word_activation_delay

\* a wake word is detected and its timeout has not fired, or this
\* iteration detects one
WakewordPending ==
    \/ rec.wakeword_detected
    \/ rec'.on_wakeword_detected > rec.on_wakeword_detected

\* listen() or wait_audio() has asked for a recording on voice activity and
\* neither a recording nor abort() has taken the request back, or the
\* listening they began has not been ended by wait_audio()
Asked == rec.start_recording_on_voice_activity \/ rec.listen_start # 0

\* C30, as stated: with wake words in use, a recording that the recording
\* thread starts on voice activity after the activation delay has passed
\* follows a detected wake word whose timeout has not fired; and a start
\* that follows a detected wake word happens only while the recorder is
\* asked to listen by listen() or wait_audio().
C30_AsStated ==
    [][ VoiceStarts /\ cfg.use_wake_words
           => /\ DelayPassed => WakewordPending
              /\ WakewordPending => Asked ]_vars

----------------------------------------------------------------------------
(* The claims, concluded *)

\* an iteration of the recording thread, in the branch of a recording in
\* progress, runs the loop that removes the wake word's samples
Trims ==
    /\ wk.wakeword_samples_to_remove > 0
    /\ wk'.wakeword_samples_to_remove = 0

\* the samples of u after the first n
DropFirst(u, n) == SubSeq(u, Min(n, Len(u)) + 1, Len(u))

\* C31, as stated: with the trim count T that a wake word match has set,
\* the loop removes exactly the first min(T, total) samples of the
\* recording's frames and no sample after them; the iteration then appends
\* its own frame, unless it stops the recording.
C31_AsStated ==
    [][ Trims =>
          LET kept == DropFirst(Flatten(rec.frames), wk.wakeword_samples_to_remove)
          IN  Flatten(rec'.frames) \in {kept, kept \o Head(audio_queue)} ]_vars

\* a recording starts: start() ran to its end, called by the recording
\* thread on voice activity or by another thread
Starts == rec'.on_recording_start > rec.on_recording_start

\* C32, as stated: when a recording starts, on voice activity or by an
\* explicit start(), the frames of the pre-roll buffer are the first frames
\* of the new utterance, in their order, followed by the frame that
\* triggered the start if a frame did, and the pre-roll buffer is empty.
C32_AsStated ==
    [][ Starts =>
          /\ rec'.frames = rec.audio_buffer
                             \o (IF VoiceStarts THEN <<Head(audio_queue)>> ELSE <<>>)
          /\ rec'.audio_buffer = <<>> ]_vars

\* C33, as stated: the utterance that wait_audio() finalizes is made of the
\* frames of one recording, each once and in capture order: the pre-roll
\* frames the recording started with, followed by every frame processed
\* while it was in progress, up to and including the frame on which it
\* stopped.
C33_AsStated ==
    [][ Finalized /\ rec.backdate_stop_seconds = 0 =>
          rec'.audio \in {Flatten(hist.recorded), Flatten(hist.last_recorded)} ]_vars

\* the capture worker, set_microphone() and shutdown(), for a recorder
\* constructed with the microphone on or off
InitMicrophone ==
    \E use_microphone \in BOOLEAN :
        InitWith([BaseCfg EXCEPT !.use_microphone = use_microphone,
                                 !.horizon = 0,
                                 !.max_calls = CaptureCalls])

NextMicrophone ==
    \/ CaptureChunk
    \/ CaptureFlush
    \/ CaptureRelease
    \/ CtlSetMicrophone
    \/ WorkerIterate
    \/ WorkerExit
    \/ Shutdown

SpecMicrophone == InitMicrophone /\ [][NextMicrophone]_vars

\* the elements of the sequence q
Range(q) == {q[i] : i \in 1..Len(q)}

C35_InOrder ==
    LET n == Len(hist.tw_answered)
        m == Len(hist.tw_received)
    IN  /\ n <= m
        /\ \A i \in 1..n :
              /\ hist.tw_answered[i].request = hist.tw_received[i]
              /\ hist.tw_answered[i].status \in {"success", "error"}
        /\ tw_queue = SubSeq(hist.tw_received, n + 1, m)
        /\ Len(pipe_res) <= n
        /\ \A k \in 1..Len(pipe_res) :
              LET a == hist.tw_answered[n - Len(pipe_res) + k]
              IN  /\ pipe_res[k].status = a.status
                  /\ a.status = "success" => pipe_res[k].result = Transcript(a.request)

\* a request whose inference failed, and a different request received after it
\* that was answered with success
C35_Witness ==
    \E i \in 1..Len(hist.tw_answered) : \E j \in 1..Len(hist.tw_answered) :
        /\ i < j
        /\ hist.tw_answered[i].status = "error"
        /\ hist.tw_answered[j].status = "success"
        /\ hist.tw_answered[j].request # hist.tw_answered[i].request

\* the recording thread processes a frame while no recording is in progress,
\* wake words are in use, the recorder was asked to listen, the activation
\* delay has passed and no wake word is detected
ListensGated ==
    /\ WorkerIterate
    /\ cfg.use_wake_words
    /\ ~rec.is_recording
    /\ DelayPassed
    /\ ~rec.wakeword_detected

\* C36, as stated: when the recorder is asked to listen with wake words in
\* use, the activation delay has passed and no wake word is detected, the
\* frame processed next leaves the state at "wakeword", or at "recording"
\* when that frame itself starts a recording, on the first listening cycle
\* and on every cycle after a stopped recording.
C36_AsStated ==
    [][ ListensGated => rec'.state = "wakeword" \/ rec'.is_recording ]_vars

\* the recording thread processes a frame while a recording on voice activity
\* is asked for and both classifiers report speech, less than
\* min_gap_between_recordings after the last stop
SuppressedStart ==
    /\ WorkerIterate
    /\ ~rec.is_recording
    /\ rec.start_recording_on_voice_activity
    /\ _is_voice_active(rec)
    /\ InGap

\* C37, as stated: when the recording thread finds voice activity and
\* start() returns without starting because of min_gap_between_recordings,
\* start_recording_on_voice_activity stays set, the pre-roll buffer keeps its
\* frames (the frame processed is appended to it), and the frame list is
\* left as it was, so that voice activity found after the gap starts the
\* recording a caller of wait_audio() waits for.
C37_AsStated ==
    [][ SuppressedStart
           => /\ rec'.start_recording_on_voice_activity
              /\ rec'.frames = rec.frames
              /\ rec'.audio_buffer =
                    DequeAppend(rec.audio_buffer, GetFrame(audio_queue).data,
                                AudioBufferMaxlen) ]_vars

\* a recording that is stopped and finalized, and the recording after it
InitSecond ==
    InitWith([BaseCfg EXCEPT !.tick = 2,
                             !.horizon = SecondHorizon,
                             !.max_frames = SecondFrames,
                             !.max_calls = SecondCalls,
                             !.max_texts = SecondTexts])

SpecSecond == InitSecond /\ [][NextSilence]_vars

\* C38, as stated: when stop() is never asked for a resume backdate, the
\* frames of a recording in progress, pre-roll included, hold no sample of
\* the utterance that was finalized last.
C38_AsStated ==
    rec.is_recording /\ cfg.resume_backdates = {0}
        => Range(Flatten(rec.frames)) \cap Range(rec.audio) = {}

\* C39, as stated: no call of shutdown() raises, whatever use_microphone was
\* at construction and whatever set_microphone() set it to since, and the
\* teardown has joined the capture worker exactly when one was started at
\* construction.
C39_AsStated ==
    /\ \A i \in ShutdownCallers : sd[i] # "raised"
    /\ hist.pipe_closed > 0 => (hist.reader_joins > 0 <=> cap.pc # "none")

\* C40, as stated: the recording-start and recording-stop notifications
\* alternate, beginning with a start: at every moment the starts notified
\* are as many as the stops notified, or one more.
C40_AsStated ==
    rec.on_recording_start - rec.on_recording_stop \in {0, 1}

====
